---------------------------- MODULE Spec2Model ----------------------------
(***************************************************************************)
(* State-machine model of the image ingestion pipelines of this repository *)
(*   - process_and_store        (src/ResizeAndToLMDB.py)                   *)
(*   - process_images_to_lmdb   (src/LMDBMigration.py)                     *)
(* together with the stores they write (LMDB, SQLite) and the source files *)
(* they remove, and of the three helpers that reclaim a downloaded file    *)
(*   - delete_if_exists         (src/DeleteIfExists.py)                    *)
(*   - process_single_file      (src/ResizeAndMoveAfterCheck.py)           *)
(*   - save_resized_image       (src/ResizeAndMoveByGPU.py)                *)
(* of the archiving pass archive_json_files, and of the pure functions     *)
(*   - collect_image_files, collect_all_image_files (the scanners)         *)
(*   - parse_json, parse_datetime                   (the sidecar parser)   *)
(* Each run executes one entry point; its steps are the statements between *)
(* which the process can fail or die.                                      *)
(***************************************************************************)
EXTENDS Integers, Sequences, FiniteSets, TLC

(* ------------------------------ bounds -------------------------------- *)
NumFiles == 3
MaxBatch == 2
MaxFaults == 2
MaxPasses == 2

Files == 1..NumFiles

(* What a source file looks like to the pipeline:                          *)
(*   "ok"      name matches the pattern, decodable, sidecar parses         *)
(*   "nojson"  name matches, decodable, no sidecar                         *)
(*   "badjson" name matches, decodable, sidecar is not parseable           *)
(*   "corrupt" name matches, image bytes cannot be decoded, no sidecar     *)
(*   "nomatch" decodable image whose name does not match the pattern       *)
Kinds == {"ok", "nojson", "badjson", "corrupt", "nomatch"}

Programs == {"pas", "mig", "dif", "psf", "sri", "arc", "scan", "json",
             "ups", "geo", "main", "pool", "image", "batch"}

VARIABLES
    prog,         \* which entry point is running
    pc,           \* position of the running entry point
    kind,         \* kind[f]: what file f looks like (never changes)
    disk,         \* image files present on disk
    jsons,        \* sidecar files (<image>.json) present on disk
    image_paths,  \* image_paths / image_files: the list handed to the run
    batch_size,
    lmdb,         \* keys durably committed to the LMDB environment
    txn,          \* the current LMDB write transaction
    sql,          \* rows durably committed to the illusts table
    sqlPending,   \* rows executed on conn but not yet committed
    pos,          \* number of list elements already consumed
    cur,          \* current batch of process_and_store (path_batch)
    i,            \* loop index (i of range(...))
    count,        \* count of process_images_to_lmdb
    batches,      \* history: one record per batch transaction
    faults,       \* history: the failures that have happened so far
    ext,          \* ext[f]: extension of the file name of f
    name,         \* name[f]: base name of f (files of different
                  \* directories may have the same)
    tdir,         \* <<f, e>>: "<name of f>.<e>" exists in the id-prefix dir
    has_json,     \* has_json of process_single_file
    removals,     \* history: os.remove calls of the reclaim helpers
    tar,          \* <root>/metadata_jsons.tar and the passes over it
    depth,        \* depth[f]: 0 when f is directly in the root directory
    found,        \* what a scanner returned
    payload,      \* the content of the sidecar handed to parse_json
    record,       \* what parse_json returned
    table,        \* the rows of the illusts table, in insertion order
    ups,          \* history: the records upserted so far
    geo,          \* the sizes resize_with_aspect_ratio works on
    root_isdir,   \* os.path.isdir(args.root_path)
    pool,         \* the two worker processes of run_multiprocessing
    img,          \* the files process_image works on: its argument and
                  \* the content of each path of the directory
    conn          \* the connection and the transaction of insert_batch

vars == <<prog, pc, kind, disk, jsons, image_paths, batch_size, lmdb, txn,
          sql, sqlPending, pos, cur, i, count, batches, faults, ext, name,
          tdir, has_json, removals, tar, depth, found, payload, record,
          table, ups, geo, root_isdir, pool, img, conn>>

\* the variables only archive_json_files and the pure functions write
late == <<table, ups, geo, root_isdir, pool, img,
          conn>>
extra == <<tar, depth, found, payload, record, late>>

(* ------------------------------ helpers ------------------------------- *)
Min(a, b) == IF a <= b THEN a ELSE b

Range(s) == {s[k] : k \in 1..Len(s)}

\* the files of S as a list, in listing order
RECURSIVE ScanSeq(_)
ScanSeq(S) ==
    IF S = {} THEN <<>>
    ELSE LET m == CHOOSE x \in S : \A y \in S : x <= y
         IN <<m>> \o ScanSeq(S \ {m})

\* the pattern test left out: every file name is taken
Matches_Any(f) == TRUE
\* pattern.match(file_name)
Matches(f) == kind[f] # "nomatch"

\* tf.io.decode_image / PIL.Image.open succeed on the file
Decodable(f) == kind[f] # "corrupt"

\* parse_json returns a record (truthy) for the sidecar of f
ParseJson(f) == kind[f] = "ok"

\* os.path.basename(image_path) / img_path.name: the LMDB key of a file
Key(f) == name[f]

\* history tags: a decode/encode failure of item f, or the n-th failure of
\* another kind ("open", "put", "sql", "remove", "move", "commit", "crash",
\* "add", "shutdown"; "dead" is a put on a transaction whose commit has
\* failed)
ItemFault(f) == <<"item", f>>
FailedItems == {t[2] : t \in {u \in faults : u[1] = "item"}}
\* the number of store, removal or process failures so far
OtherFaults == Cardinality({u \in faults : u[1] # "item"})
Fault(what) == <<what, OtherFaults + 1>>
Clean == OtherFaults = 0
\* failures the environment chose: the above and the encode failures of
\* decodable images (a corrupt file fails by itself)
Injected == OtherFaults
            + Cardinality({u \in faults : u[1] = "item" /\ Decodable(u[2])})
\* what a call that can fail may do: the environment fails at most
\* MaxFaults calls of a run
Outcomes == IF Injected < MaxFaults THEN {"ok", "fail"} ELSE {"ok"}
SqlOutcomes == IF Injected < MaxFaults
               THEN {"ok", "exec_fail", "commit_fail"} ELSE {"ok"}

\* txn: the write transaction the run holds (state, pending puts) and
\* live, the number of write transactions begun on the environment and
\* neither committed nor aborted
NoTxn == [state |-> "none", writes |-> {}, live |-> 0]

\* txn = env.begin(write=True)
Begin(t) == [state |-> "open", writes |-> {}, live |-> t.live + 1]

\* a commit or abort that does not end the transaction
End_Leak(t, st) == [state |-> st, writes |-> {}, live |-> t.live]

\* txn.commit() / txn.abort(): the transaction is over, also when the
\* commit raised (st = "dead": the handle is kept, unusable)
End(t, st) ==
    [state |-> st, writes |-> {},
     live |-> IF t.state = "open" THEN t.live - 1 ELSE t.live]

NewBatch(items, st) ==
    [items |-> items, status |-> st, stored |-> {}, removed |-> {},
     recs |-> {}, blobTxns |-> 1, sqlCommits |-> 0]

\* ds.batch(batch_size): the next slice of image_paths
DsBatch(paths, b, p) == SubSeq(paths, p + 1, Min(p + b, Len(paths)))

LastB == Len(batches)

(* ------------------------------ scanners ------------------------------ *)
\* the extensions of the files of a scanned tree
ScanExts == {"png", "jpg", "jpeg", "JPG", "json"}

\* every file is directly in the root directory
Flat == [f \in Files |-> 0]

\* no scanner has been called
NoFound == [by |-> "none", none |-> FALSE, files |-> {}]
ScanIdle == depth = Flat /\ found = NoFound

\* str.lower() of an extension
Lower(e) == CASE e = "JPG" -> "jpg"
              [] e = "PNG" -> "png"
              [] e = "JPEG" -> "jpeg"
              [] OTHER -> e

\* ResizeAndToLMDB.py line 20
VALID_EXTS == {"jpg", "jpeg", "png"}

\* os.scandir(root_dir): the entries of the root directory itself, kept
\* when entry.name.lower().endswith(VALID_EXTS)
collect_image_files(S) ==
    [by |-> "collect_image_files", none |-> FALSE,
     files |-> {f \in S : depth[f] = 0 /\ Lower(ext[f]) \in VALID_EXTS}]

\* path.rglob("*.<e>"): the files at any depth whose name ends in ".<e>";
\* the match is case-sensitive on a POSIX file system
rglob(S, e) == {f \in S : ext[f] = e}

\* line 96: list(path.rglob("*.png") + list(path.rglob("*.jpg"))) adds a
\* generator and a list, which raises TypeError for every tree; the except
\* at line 98 logs it and the function returns None
collect_all_image_files(S) ==
    [by |-> "collect_all_image_files", none |-> TRUE, files |-> {}]

(* ----------------------------- parse_json ----------------------------- *)
\* Bounds of the sidecar payloads: the longest tag list
MaxTags == 2

\* JSON values.  A string is the sequence of its characters (a timestamp:
\* of its parts); Absent stands for a key the object does not have.
Absent == [t |-> "absent", v |-> <<>>]
Null == [t |-> "null", v |-> <<>>]
Num == [t |-> "num", v |-> <<>>]
Str(s) == [t |-> "str", v |-> s]
List(l) == [t |-> "list", v |-> l]
\* the object {"name": nm}, or {} when nm is Absent
Dict(nm) == [t |-> "dict", v |-> <<nm>>]

\* the parts of a timestamp string
D == "YYYY-MM-DD"
T == "HH:MM:SS"
F == ".ffffff"
Offsets == {"+00:00", "+09:00"}

TagStrings == {<<"a">>, <<"b">>, <<"a", "b">>}
TagLists == UNION {[1..n -> {Str(g) : g \in TagStrings}] : n \in 0..MaxTags}
TagsValues == {Absent, Null, Num, Str(<<"a", "b">>), List(<<Num>>)}
                \cup {List(l) : l \in TagLists}
UserValues == {Absent, Null, Str(<<"a">>), Dict(Absent), Dict(Null),
               Dict(Str(<<"a">>))}
StampStrings == {<<>>, <<"garbage">>, <<D>>, <<D, "T", T>>, <<D, " ", T>>,
                 <<D, "T", T, F>>, <<D, "T", T, "Z">>,
                 <<D, "T", T, "+09:00">>}
StampValues == {Absent, Null, Num} \cup {Str(x) : x \in StampStrings}
\* gallery-dl writes "date" as a plain "YYYY-MM-DD HH:MM:SS"
DateValues == {Absent, Str(<<"garbage">>), Str(<<D, " ", T>>),
               Str(<<D, "T", T, "Z">>)}

\* parse_json has not been called
NoPayload == [kind |-> "none", image |-> TRUE, user |-> Absent,
              tags |-> Absent, create_date |-> Absent, date |-> Absent]
\* parse_json returned None
NoRecord == [none |-> TRUE, user_name |-> Null, tags |-> Null,
             create_date |-> Null, date |-> Null]
JsonIdle == payload = NoPayload /\ record = NoRecord

\* dict.get(key) and dict.get(key, default)
Get(v) == IF v.t = "absent" THEN Null ELSE v
GetDefault(v, d) == IF v.t = "absent" THEN d ELSE v

\* sep.join(l) for a list l of strings
RECURSIVE Join(_, _)
Join(sep, l) ==
    IF Len(l) = 0 THEN <<>>
    ELSE IF Len(l) = 1 THEN l[1]
    ELSE l[1] \o sep \o Join(sep, Tail(l))

\* what ",".join(x) iterates over: the items of a list, the characters of
\* a string
Iter(x) == IF x.t = "list" THEN [k \in 1..Len(x.v) |-> x.v[k]]
           ELSE [k \in 1..Len(x.v) |-> Str(<<x.v[k]>>)]
\* ",".join(x) raises TypeError: x is not iterable or an item is no string
JoinRaises(x) == \/ x.t \notin {"list", "str"}
                 \/ \E k \in 1..Len(Iter(x)) : Iter(x)[k].t # "str"
\* a tags field that is null for an empty list
JoinTags_NullWhenEmpty(x) ==
    IF Len(Iter(x)) = 0 THEN Null
    ELSE Str(Join(<<",">>, [k \in 1..Len(Iter(x)) |-> Iter(x)[k].v]))

\* line 168: ",".join(metadata.get("tags", []))
JoinTags(x) == Str(Join(<<",">>, [k \in 1..Len(Iter(x)) |-> Iter(x)[k].v]))

\* s.replace("Z", "+00:00")
ReplaceZ(s) == [k \in 1..Len(s) |-> IF s[k] = "Z" THEN "+00:00" ELSE s[k]]

\* datetime.fromisoformat(s) accepts a date, optionally followed by a
\* separator, a time, a fraction and a UTC offset
IsoFormat(s) ==
    /\ Len(s) >= 1 /\ s[1] = D
    /\ \/ Len(s) = 1
       \/ /\ Len(s) >= 3 /\ s[2] \in {"T", " "} /\ s[3] = T
          /\ \/ Len(s) = 3
             \/ Len(s) = 4 /\ s[4] \in {F} \cup Offsets
             \/ Len(s) = 5 /\ s[4] = F /\ s[5] \in Offsets
\* the tzinfo of the parsed datetime ("" when it is naive)
TzInfo(s) == IF s[Len(s)] \in Offsets THEN <<s[Len(s)]>> ELSE <<>>
\* dt.isoformat(sep=' ', timespec='seconds'): date, separator, time without
\* fraction, and the UTC offset of an aware datetime
IsoString(s) == <<D, " ", T>> \o TzInfo(s)

\* lines 153-158: parse_datetime(s); v is metadata.get(key)
parse_datetime(v) ==
    IF v.t = "null" \/ (v.t = "str" /\ v.v = <<>>)
    THEN Null                                        \* "... if s else None"
    ELSE IF v.t # "str"
    THEN Null                                        \* s.replace raises
    ELSE IF ~IsoFormat(ReplaceZ(v.v))
    THEN Null                                        \* fromisoformat raises
    ELSE Str(IsoString(ReplaceZ(v.v)))

\* lines 160-195: the record is built in one try; an exception raised by
\* any field makes parse_json return None
FieldRaises(p) ==
    \/ p.kind # "dict"                               \* no .get
    \/ GetDefault(p.user, Dict(Absent)).t # "dict"   \* no .get
    \/ JoinRaises(GetDefault(p.tags, List(<<>>)))

\* parse_json(json_path) of ResizeAndToLMDB.py
parse_json(p) ==
    IF p.kind = "bad" THEN NoRecord                  \* json.load raised
    ELSE IF FieldRaises(p) THEN NoRecord
    ELSE [none |-> FALSE,
          user_name |-> Get(GetDefault(p.user, Dict(Absent)).v[1]),
          tags |-> JoinTags(GetDefault(p.tags, List(<<>>))),
          create_date |-> parse_datetime(Get(p.create_date)),
          date |-> parse_datetime(Get(p.date))]

\* parse_json(json_path) of CreateMetadataSqlite.py: lines 79-86 return None
\* when no image file stands next to the sidecar
parse_json_sqlite(p) == IF ~p.image THEN NoRecord ELSE parse_json(p)
(* -------------------------- the illusts table -------------------------- *)
\* Bound: the number of records upserted in one run
MaxUpserts == 2

Number(n) == [t |-> "num", v |-> <<n>>]

\* the values a sidecar gives for the fields of a record
IdValues == {Absent, Number(1), Number(2)}
FilenameValues == {Absent, Str(<<"a">>), Str(<<"b">>)}
TitleValues == {Str(<<"a">>), Str(<<"b">>)}

\* the record parse_json builds with metadata.get(...) for every column
Record(m) == [id |-> Get(m.id), filename |-> Get(m.filename),
              title |-> Get(m.title)]
Records == {Record(m) : m \in [id : IdValues, filename : FilenameValues,
                                title : TitleValues]}

\* the column the CREATE TABLE statement declares as PRIMARY KEY:
\* "filename TEXT PRIMARY KEY" in ResizeAndToLMDB.py,
\* "id INTEGER PRIMARY KEY" in CreateMetadataSqlite.py
Schemas == {"filename", "id"}
Pk(schema, r) == IF schema = "filename" THEN r.filename ELSE r.id

\* the rowid SQLite assigns to a row inserted with a NULL INTEGER PRIMARY KEY
NextRowid(rows) ==
    LET used == {rows[k].id.v[1] : k \in 1..Len(rows)}
    IN  IF used = {} THEN 1 ELSE (CHOOSE n \in used : \A m \in used : m <= n) + 1

\* INSERT OR REPLACE INTO illusts (...) VALUES (...): a row whose primary key
\* equals the new one is deleted first.  A NULL in a TEXT PRIMARY KEY column
\* declared without NOT NULL is accepted and conflicts with no row; a NULL
\* in an INTEGER PRIMARY KEY column is replaced by a fresh rowid.
InsertOrReplace(schema, rows, r) ==
    LET k == Pk(schema, r)
        others_ == SelectSeq(rows, LAMBDA x : Pk(schema, x) # k)
    IN  IF k # Null THEN Append(others_, r)
        ELSE IF schema = "filename" THEN Append(rows, r)
        ELSE Append(rows, [r EXCEPT !.id = Number(NextRowid(rows))])

NoTable == [schema |-> "none", rows |-> <<>>]
TableIdle == table = NoTable /\ ups = <<>>

(* --------- resize_with_aspect_ratio (ResizeImageWithAspectRatio.py) ---- *)
\* Bound: the largest width or height of an image or of a target.  Up to
\* 12 the double-precision product original * ratio truncates to the
\* floor of the exact quotient, for every combination of sizes.
MaxDim == 4
Dims == 1..MaxDim

NoGeo == [state |-> "none", ow |-> 1, oh |-> 1, tw |-> 1, th |-> 1,
          nw |-> 0, nh |-> 0, ox |-> 0, oy |-> 0, cw |-> 0, ch |-> 0]
GeoIdle == geo = NoGeo

\* min(target_width / original_width, target_height / original_height),
\* as a fraction <<numerator, denominator>>
Ratio(g) ==
    IF g.tw * g.oh <= g.th * g.ow THEN <<g.tw, g.ow>> ELSE <<g.th, g.oh>>
\* int(original * ratio)
Scaled(original, ratio) == (original * ratio[1]) \div ratio[2]

\* Image.resize((new_width, new_height)) raises ValueError("height and
\* width must be > 0") for an empty size; otherwise the resized image is
\* pasted at the offsets on a new canvas of target_size
resize_with_aspect_ratio(g) ==
    LET new_width == Scaled(g.ow, Ratio(g))
        new_height == Scaled(g.oh, Ratio(g))
    IN  IF new_width < 1 \/ new_height < 1
        THEN [g EXCEPT !.state = "raised", !.nw = new_width,
                       !.nh = new_height]
        ELSE [g EXCEPT !.state = "canvas", !.nw = new_width,
                       !.nh = new_height,
                       !.ox = (g.tw - new_width) \div 2,
                       !.oy = (g.th - new_height) \div 2,
                       !.cw = g.tw, !.ch = g.th]

\* a program that is no main() runs on an existing root directory
MainIdle == root_isdir = TRUE

\* where each of the two tasks of the worker pool stands, has_json of the
\* image task, and the tasks that failed because a file had vanished
NoPool == [img |-> "idle", js |-> "idle", has_json |-> FALSE, failed |-> {}]
PoolIdle == pool = NoPool

(* ------------- process_image (ResizeImageWithAspectRatio.py) ----------- *)
\* the paths process_image touches: <name>.<ext> and <name>_resized.png
Paths == ({"name"} \X VALID_EXTS) \cup {<<"name_resized", "png">>}
\* what a path holds: nothing, the source image, a file being written, the
\* completely written resized image, or a file an earlier run left behind
Contents == {"none", "original", "partial", "resized", "stale"}

\* the resized image written straight to the final path
SavePath_Final == <<"name", "png">>
\* resized_temp_path, line 59
SavePath == <<"name_resized", "png">>
\* final_path, line 60
FinalPath == <<"name", "png">>

NoImage == [path |-> <<"name", "png">>, fs |-> [p \in Paths |-> "none"]]
ImageIdle == img = NoImage

(* ----------------- insert_batch (CreateMetadataSqlite.py) -------------- *)
\* the records handed to insert_batch: records of parse_json, and one with
\* a value sqlite3 cannot bind (a list), for which cursor.execute raises
BatchRecords ==
    {r \in Records : r.filename = Str(<<"a">>)}
        \cup {[id |-> Number(1), filename |-> Str(<<"a">>),
                title |-> List(<<>>)]}

\* the arguments of the call, the state of the connection, the rows as
\* the open transaction sees them, and what happened: the rows before the
\* call and whether the except clause ran
NoConn == [records |-> <<>>, state |-> "none", k |-> 0, pending |-> <<>>,
           before |-> <<>>, raised |-> FALSE]

\* the rows of the table after conn.commit() was written with the
\* transaction's rows
RolledBack_Kept(rows, pending) == pending
\* the rows of the table after conn.rollback()
RolledBack(rows, pending) == rows

LateIdle ==
    TableIdle /\ GeoIdle /\ MainIdle /\ PoolIdle /\ ImageIdle /\ conn = NoConn

(* ------------------------------- Init --------------------------------- *)
Exts == {"png", "jpg", "jpeg"}
TargetTags == Exts \cup {"json"}

\* the sidecars that come with the image files of S
Sidecars(S) == {f \in S : kind[f] \in {"ok", "badjson"}}

\* no archive yet
NoTar == [exists |-> FALSE, entries |-> <<>>, before |-> <<>>, pass |-> 1]

InitRest ==
    /\ pc = "start"
    /\ image_paths = <<>>
    /\ txn = NoTxn
    /\ sqlPending = {}
    /\ pos = 0
    /\ i = 0
    /\ count = 0
    /\ batches = <<>>
    /\ faults = {}
    /\ has_json = FALSE
    /\ removals = <<>>

\* a tree of n image files for one of the two ingestion pipelines
InitPipeline ==
    /\ prog \in {"pas", "mig"}
    /\ \E n \in 0..NumFiles :
         /\ disk = 1..n
         /\ kind \in [Files -> Kinds]
         /\ \A f \in Files : f > n => kind[f] = "nojson"
         \* all base names differ, or the last file has the name of the
         \* first (two sound images in different directories)
         /\ name \in {[f \in Files |-> f],
                      [f \in Files |-> IF f = n THEN 1 ELSE f]}
         /\ name # [f \in Files |-> f] =>
              \A f \in Files : kind[f] \in {"ok", "nojson"}
    /\ jsons = Sidecars(disk)
    /\ ext = [f \in Files |-> "png"]
    /\ tdir = {}
    /\ batch_size \in 1..MaxBatch
    /\ cur = <<>>
    /\ lmdb = {}
    /\ sql = {}
    /\ tar = NoTar
    /\ ScanIdle /\ JsonIdle
    /\ InitRest

\* one downloaded file handed to a reclaim helper, with any content of the
\* id-prefix directory
InitSingle ==
    /\ prog \in {"dif", "psf", "sri"}
    /\ \E f \in Files :
         /\ cur = <<f>>
         /\ disk \in SUBSET {f}
         /\ kind \in [Files -> Kinds]
         /\ ext \in [Files -> Exts]
         /\ \A g \in Files \ {f} : kind[g] = "nojson" /\ ext[g] = "png"
         /\ tdir \in SUBSET ({f} \X TargetTags)
    /\ jsons = Sidecars(disk)
    /\ name = [f \in Files |-> f]
    /\ batch_size = 1
    /\ lmdb = {}
    /\ sql = {}
    /\ tar = NoTar
    /\ ScanIdle /\ JsonIdle
    /\ InitRest

\* a tree whose sources an earlier run has all reclaimed: the blobs and
\* rows of that run are in the stores, sidecars may be left, and the
\* archive holds the sidecars that were there
InitReclaimed ==
    /\ prog \in {"pas", "mig"}
    /\ disk = {}
    /\ lmdb \in SUBSET Files
    /\ sql \in SUBSET lmdb
    /\ jsons \in SUBSET sql
    /\ kind = [f \in Files |-> IF f \in jsons THEN "ok" ELSE "nojson"]
    /\ name = [f \in Files |-> f]
    /\ ext = [f \in Files |-> "png"]
    /\ tdir = {}
    /\ batch_size \in 1..MaxBatch
    /\ cur = <<>>
    /\ tar = [NoTar EXCEPT !.exists = (jsons # {}),
                           !.entries = ScanSeq(jsons)]
    /\ ScanIdle /\ JsonIdle
    /\ InitRest

\* a tree with any sidecars, handed to archive_json_files
InitArchive ==
    /\ prog = "arc"
    /\ disk = {}
    /\ jsons \in SUBSET Files
    /\ kind = [f \in Files |-> IF f \in jsons THEN "ok" ELSE "nojson"]
    /\ name = [f \in Files |-> f]
    /\ ext = [f \in Files |-> "png"]
    /\ tdir = {}
    /\ batch_size = 1
    /\ cur = <<>>
    /\ lmdb = {}
    /\ sql = {}
    /\ tar = NoTar
    /\ ScanIdle /\ JsonIdle
    /\ InitRest

\* a tree of n files of any extension, in the root or below it, handed to
\* a scanner
InitScan ==
    /\ prog = "scan"
    /\ \E n \in 0..NumFiles :
         /\ disk = 1..n
         /\ ext \in [Files -> ScanExts]
         /\ depth \in [Files -> 0..1]
         /\ \A f \in Files : f > n => ext[f] = "png" /\ depth[f] = 0
    /\ kind = [f \in Files |-> "nojson"]
    /\ jsons = {}
    /\ name = [f \in Files |-> f]
    /\ tdir = {}
    /\ batch_size = 1
    /\ cur = <<>>
    /\ lmdb = {}
    /\ sql = {}
    /\ tar = NoTar
    /\ found = NoFound
    /\ JsonIdle
    /\ InitRest

\* one sidecar handed to parse_json: not JSON at all, a JSON value that is
\* no object, or an object with any value for the fields
InitJson ==
    /\ prog = "json"
    /\ \/ /\ payload \in {[NoPayload EXCEPT !.kind = k, !.image = im] :
                            k \in {"bad", "notdict"}, im \in BOOLEAN}
       \/ /\ payload \in [kind : {"dict"}, image : BOOLEAN,
                          user : UserValues, tags : TagsValues,
                          create_date : StampValues, date : DateValues]
    /\ record = NoRecord
    /\ disk = {}
    /\ jsons = {}
    /\ kind = [f \in Files |-> "nojson"]
    /\ name = [f \in Files |-> f]
    /\ ext = [f \in Files |-> "png"]
    /\ tdir = {}
    /\ batch_size = 1
    /\ cur = <<>>
    /\ lmdb = {}
    /\ sql = {}
    /\ tar = NoTar
    /\ ScanIdle
    /\ InitRest

\* the values of the variables of the earlier sections when none of their
\* programs runs
EarlierIdle ==
    /\ disk = {}
    /\ jsons = {}
    /\ kind = [f \in Files |-> "nojson"]
    /\ name = [f \in Files |-> f]
    /\ ext = [f \in Files |-> "png"]
    /\ tdir = {}
    /\ batch_size = 1
    /\ cur = <<>>
    /\ lmdb = {}
    /\ sql = {}
    /\ tar = NoTar
    /\ ScanIdle /\ JsonIdle
    /\ InitRest

\* init_db(db_path) has created an empty illusts table
InitUpsert ==
    /\ prog = "ups"
    /\ table \in [schema : Schemas, rows : {<<>>}]
    /\ ups = <<>>
    /\ GeoIdle /\ MainIdle /\ PoolIdle /\ ImageIdle /\ conn = NoConn
    /\ EarlierIdle

\* an image of any size and any target size
InitGeo ==
    /\ prog = "geo"
    /\ \E ow \in Dims, oh \in Dims, tw \in Dims, th \in Dims :
         geo = [NoGeo EXCEPT !.state = "image", !.ow = ow, !.oh = oh,
                             !.tw = tw, !.th = th]
    /\ TableIdle /\ MainIdle /\ PoolIdle /\ ImageIdle /\ conn = NoConn
    /\ EarlierIdle

\* main() of ResizeAndToLMDB.py is started on a path that is a directory
\* holding image files with their sidecars, or on one that is no directory
InitMain ==
    /\ prog = "main"
    /\ root_isdir \in BOOLEAN
    /\ disk = IF root_isdir THEN Files ELSE {}
    /\ kind = [f \in Files |-> "ok"]
    /\ jsons = disk
    /\ name = [f \in Files |-> f]
    /\ ext = [f \in Files |-> "png"]
    /\ tdir = {}
    /\ batch_size \in 1..MaxBatch
    /\ cur = <<>>
    /\ lmdb = {}
    /\ sql = {}
    /\ tar = NoTar
    /\ ScanIdle /\ JsonIdle
    /\ TableIdle /\ GeoIdle /\ PoolIdle /\ ImageIdle /\ conn = NoConn
    /\ InitRest

\* run_multiprocessing(collect_files_in_directory(dir)): the listing holds
\* an image and its sidecar, and each is the task of a worker process; the
\* id-prefix directory may hold files of earlier runs
InitPool ==
    /\ prog = "pool"
    /\ \E f \in Files :
         /\ cur = <<f>>
         /\ disk = {f}
         /\ kind \in [Files -> {"ok", "badjson", "nojson"}]
         /\ kind[f] # "nojson"
         /\ ext \in [Files -> Exts]
         /\ \A g \in Files \ {f} : kind[g] = "nojson" /\ ext[g] = "png"
         /\ tdir \in SUBSET ({f} \X TargetTags)
    /\ jsons = Sidecars(disk)
    /\ pool = [NoPool EXCEPT !.img = "check", !.js = "check"]
    /\ name = [f \in Files |-> f]
    /\ batch_size = 1
    /\ lmdb = {}
    /\ sql = {}
    /\ tar = NoTar
    /\ ScanIdle /\ JsonIdle
    /\ TableIdle /\ GeoIdle /\ MainIdle /\ ImageIdle /\ conn = NoConn
    /\ InitRest

\* process_image(path, target_size) is called for a source of any
\* extension; the directory may hold files an earlier run left behind
InitImage ==
    /\ prog = "image"
    /\ \E e \in VALID_EXTS :
       \E stale \in SUBSET (Paths \ {<<"name", e>>}) :
         img = [path |-> <<"name", e>>,
                fs |-> [p \in Paths |->
                          IF p = <<"name", e>> THEN "original"
                          ELSE IF p \in stale THEN "stale" ELSE "none"]]
    /\ TableIdle /\ GeoIdle /\ MainIdle /\ PoolIdle /\ conn = NoConn
    /\ EarlierIdle

\* insert_batch(records, db_path) is called with any list of records on
\* the table init_db created, empty or holding a row of an earlier call
InitBatch ==
    /\ prog = "batch"
    /\ table \in [schema : {"id"},
                  rows : {<<>>, <<[id |-> Number(1), filename |-> Null,
                                   title |-> Null]>>}]
    /\ \E n \in 0..MaxUpserts :
         conn \in [records : [1..n -> BatchRecords], state : {"none"},
                   k : {0}, pending : {<<>>}, before : {<<>>},
                   raised : {FALSE}]
    /\ ups = <<>>
    /\ GeoIdle /\ MainIdle /\ PoolIdle /\ ImageIdle
    /\ EarlierIdle

\* the pipelines, helpers, archive, scanners and parse_json never touch
\* the variables of the later sections
InitEarlier ==
    /\ \/ InitPipeline \/ InitSingle \/ InitReclaimed \/ InitArchive
       \/ InitScan \/ InitJson
    /\ LateIdle

Init ==
    \/ InitEarlier
    \/ InitUpsert
    \/ InitGeo
    \/ InitMain
    \/ InitPool
    \/ InitImage
    \/ InitBatch

(* ---------------- process_and_store (ResizeAndToLMDB.py) -------------- *)
\* lines 212-218: lmdb.open, dataset construction, sqlite3.connect; an
\* environment or database that cannot be opened raises out of the function
PasOpen ==
    /\ prog = "pas" /\ pc = "start"
    /\ \E open \in Outcomes :
         IF open = "fail"
         THEN /\ pc' = "raised"
              /\ faults' = faults \cup {Fault("open")}
              /\ UNCHANGED <<image_paths, pos>>
         ELSE /\ image_paths' = ScanSeq(disk)
              /\ pos' = 0
              /\ pc' = "pas_next"
              /\ UNCHANGED faults
    /\ UNCHANGED <<prog, kind, ext, name, extra, tdir, has_json, removals, disk, jsons,
                   batch_size, lmdb, txn, sql, sqlPending, cur, i, count,
                   batches>>

\* for resized_batch, path_batch in ds:  txn = env.begin(write=True)
\* An element whose map function fails makes the iterator raise; the loop
\* is not inside a try, so the exception leaves process_and_store.
PasNextBatch ==
    /\ prog = "pas" /\ pc = "pas_next"
    /\ pos < Len(image_paths)
    /\ LET b == DsBatch(image_paths, batch_size, pos) IN
         IF \E f \in Range(b) : ~Decodable(f) \/ f \notin disk
         THEN /\ pc' = "raised"
              /\ faults' = faults \cup {ItemFault(f) : f \in {g \in Range(b) : ~Decodable(g) \/ g \notin disk}}
              /\ UNCHANGED <<cur, i, txn, batches, pos>>
         ELSE /\ cur' = b
              /\ i' = 1
              /\ pos' = pos + Len(b)
              /\ txn' = Begin(txn)
              /\ batches' = Append(batches, NewBatch(b, "Committing"))
              /\ pc' = "pas_item"
              /\ UNCHANGED faults
    /\ UNCHANGED <<prog, kind, ext, name, extra, tdir, has_json, removals, disk, jsons, image_paths, batch_size, lmdb,
                   sql, sqlPending, count>>

\* lines 230-239: pattern match, encode_image_tensor, store_to_lmdb
PasItem ==
    /\ prog = "pas" /\ pc = "pas_item"
    /\ i <= Len(cur)
    /\ LET f == cur[i] IN
         IF ~Matches(f)
         THEN \* continue
              /\ i' = i + 1
              /\ UNCHANGED <<pc, txn, batches, faults>>
         ELSE \E enc \in Outcomes, put \in Outcomes :
              IF enc = "fail"
              THEN \* encode raised: caught at line 250
                   /\ i' = i + 1
                   /\ faults' = faults \cup {ItemFault(f)}
                   /\ UNCHANGED <<pc, txn, batches>>
              ELSE IF put = "fail"
              THEN \* txn.put raised inside store_to_lmdb: logged, swallowed
                   /\ pc' = "pas_meta"
                   /\ faults' = faults \cup {Fault("put")}
                   /\ UNCHANGED <<i, txn, batches>>
              ELSE /\ txn' = [txn EXCEPT !.writes = @ \cup {Key(f)}]
                   /\ batches' = [batches EXCEPT ![LastB].stored = @ \cup {f}]
                   /\ pc' = "pas_meta"
                   /\ UNCHANGED <<i, faults>>
    /\ UNCHANGED <<prog, kind, ext, name, extra, tdir, has_json, removals, disk, jsons, image_paths, batch_size, lmdb,
                   sql, sqlPending, pos, cur, count>>

\* lines 241-245: sidecar lookup, parse_json, store_metadata_to_db
\* store_metadata_to_db executes the INSERT OR REPLACE and commits conn.
PasMeta ==
    /\ prog = "pas" /\ pc = "pas_meta"
    /\ LET f == cur[i] IN
         IF f \in jsons /\ ParseJson(f)
         THEN \E res \in SqlOutcomes :
                CASE res = "ok" ->
                       /\ sql' = sql \cup sqlPending \cup {f}
                       /\ sqlPending' = {}
                       /\ batches' = [batches EXCEPT
                                        ![LastB].recs = @ \cup {f},
                                        ![LastB].sqlCommits = @ + 1]
                       /\ UNCHANGED faults
                  [] res = "exec_fail" ->
                       /\ faults' = faults \cup {Fault("sql")}
                       /\ UNCHANGED <<sql, sqlPending, batches>>
                  [] res = "commit_fail" ->
                       /\ sqlPending' = sqlPending \cup {f}
                       /\ batches' = [batches EXCEPT
                                        ![LastB].recs = @ \cup {f}]
                       /\ faults' = faults \cup {Fault("sql")}
                       /\ UNCHANGED sql
         ELSE UNCHANGED <<sql, sqlPending, batches, faults>>
    /\ pc' = "pas_remove"
    /\ UNCHANGED <<prog, kind, ext, name, extra, tdir, has_json, removals, disk, jsons, image_paths, batch_size, lmdb,
                   txn, pos, cur, i, count>>

\* line 248: os.remove(image_path); a failure is caught at line 250
PasRemove ==
    /\ prog = "pas" /\ pc = "pas_remove"
    /\ LET f == cur[i] IN
         \E rm \in Outcomes :
            IF rm = "ok" /\ f \in disk
            THEN /\ disk' = disk \ {f}
                 /\ batches' = [batches EXCEPT ![LastB].removed = @ \cup {f}]
                 /\ UNCHANGED faults
            ELSE /\ faults' = faults \cup {Fault("remove")}
                 /\ UNCHANGED <<disk, batches>>
    /\ i' = i + 1
    /\ pc' = "pas_item"
    /\ UNCHANGED <<prog, kind, ext, name, extra, tdir, has_json, removals, jsons, image_paths, batch_size, lmdb, txn,
                   sql, sqlPending, pos, cur, count>>

\* lines 254-258: txn.commit(), on failure txn.abort()
PasCommit ==
    /\ prog = "pas" /\ pc = "pas_item"
    /\ i > Len(cur)
    /\ \E res \in Outcomes :
         IF res = "ok"
         THEN /\ lmdb' = lmdb \cup txn.writes
              /\ batches' = [batches EXCEPT ![LastB].status = "Committed"]
              /\ UNCHANGED faults
         ELSE /\ batches' = [batches EXCEPT ![LastB].status = "Failed"]
              /\ faults' = faults \cup {Fault("commit")}
              /\ UNCHANGED lmdb
    /\ txn' = End(txn, "none")
    /\ pc' = "pas_next"
    /\ UNCHANGED <<prog, kind, ext, name, extra, tdir, has_json, removals, disk, jsons, image_paths, batch_size, sql,
                   sqlPending, pos, cur, i, count>>

\* lines 260-262: conn.close() drops what was not committed; env.close()
PasClose ==
    /\ prog = "pas" /\ pc = "pas_next"
    /\ pos >= Len(image_paths)
    /\ sqlPending' = {}
    /\ pc' = "done"
    /\ UNCHANGED <<prog, kind, ext, name, extra, tdir, has_json, removals, disk, jsons, image_paths, batch_size, lmdb,
                   txn, sql, pos, cur, i, count, batches, faults>>


(* -------------- process_images_to_lmdb (LMDBMigration.py) ------------- *)
\* line 47: list(rglob("*.png")) + list(rglob("*.jpg"))
MigScan(S) == ScanSeq(rglob(S, "png")) \o ScanSeq(rglob(S, "jpg"))

\* lines 39-51: lmdb.open (a failure is logged and the function returns),
\* the scan of the tree, count = 0, the first env.begin(write=True)
MigOpen ==
    /\ prog = "mig" /\ pc = "start"
    /\ \E open \in Outcomes :
         IF open = "fail"
         THEN /\ pc' = "done"
              /\ faults' = faults \cup {Fault("open")}
              /\ UNCHANGED <<image_paths, pos, count, txn, batches>>
         ELSE /\ image_paths' = MigScan(disk)
              /\ pos' = 0
              /\ count' = 0
              /\ txn' = Begin(txn)
              /\ batches' = Append(batches, NewBatch(<<>>, "Accumulating"))
              /\ pc' = "mig_item"
              /\ UNCHANGED faults
    /\ UNCHANGED <<prog, kind, ext, name, extra, tdir, has_json, removals, disk, jsons, batch_size, lmdb, sql,
                   sqlPending, cur, i>>

\* lines 53-63 and 75-76: encode_image, txn.put, count += 1.
\* A put on a transaction whose commit failed raises; every exception of
\* the loop body is caught at line 75 and the loop goes on.
MigItem ==
    /\ prog = "mig" /\ pc = "mig_item"
    /\ pos < Len(image_paths)
    /\ LET f == image_paths[pos + 1] IN
         IF ~Decodable(f) \/ f \notin disk
         THEN \* encode_image returned None
              /\ pos' = pos + 1
              /\ faults' = faults \cup {ItemFault(f)}
              /\ UNCHANGED <<pc, txn, count, batches>>
         ELSE \E put \in Outcomes :
              IF put = "fail" \/ txn.state # "open"
              THEN /\ pos' = pos + 1
                   /\ faults' = faults \cup {IF txn.state = "open"
                                              THEN Fault("put")
                                              ELSE Fault("dead")}
                   /\ UNCHANGED <<pc, txn, count, batches>>
              ELSE /\ txn' = [txn EXCEPT !.writes = @ \cup {Key(f)}]
                   /\ count' = count + 1
                   /\ UNCHANGED faults
                   /\ IF (count + 1) % batch_size = 0
                      THEN /\ pc' = "mig_commit"
                           /\ batches' = [batches EXCEPT
                                ![LastB].items = Append(@, f),
                                ![LastB].stored = @ \cup {f},
                                ![LastB].status = "Committing"]
                           /\ UNCHANGED pos
                      ELSE /\ pos' = pos + 1
                           /\ batches' = [batches EXCEPT
                                ![LastB].items = Append(@, f),
                                ![LastB].stored = @ \cup {f}]
                           /\ UNCHANGED pc
    /\ UNCHANGED <<prog, kind, ext, name, extra, tdir, has_json, removals, disk, jsons, image_paths, batch_size, lmdb,
                   sql, sqlPending, cur, i>>

\* line 64: txn.commit() of a full batch.  When it raises, the exception
\* is caught at line 75: nothing is removed and no new transaction begins.
MigCommit ==
    /\ prog = "mig" /\ pc = "mig_commit"
    /\ \E res \in Outcomes :
         IF res = "ok"
         THEN /\ lmdb' = lmdb \cup txn.writes
              /\ txn' = End(txn, "none")
              /\ batches' = [batches EXCEPT ![LastB].status = "Committed"]
              /\ i' = count - batch_size
              /\ pc' = "mig_del"
              /\ UNCHANGED <<pos, faults>>
         ELSE /\ txn' = End(txn, "dead")
              /\ batches' = [batches EXCEPT ![LastB].status = "Failed"]
              /\ pos' = pos + 1
              /\ pc' = "mig_item"
              /\ faults' = faults \cup {Fault("commit")}
              /\ UNCHANGED <<lmdb, i>>
    /\ UNCHANGED <<prog, kind, ext, name, extra, tdir, has_json, removals, disk, jsons, image_paths, batch_size, sql,
                   sqlPending, cur, count>>

\* os.remove(image_files[i]) of one of the two removal loops
\* (lines 67-72 and 85-90); a failure is logged and the loop goes on
RemoveIndexed(nextpc) ==
    /\ i < count
    /\ LET f == image_paths[i + 1] IN
         \E rm \in Outcomes :
            IF rm = "ok" /\ f \in disk
            THEN /\ disk' = disk \ {f}
                 /\ batches' = [batches EXCEPT ![LastB].removed = @ \cup {f}]
                 /\ UNCHANGED faults
            ELSE /\ faults' = faults \cup {Fault("remove")}
                 /\ UNCHANGED <<disk, batches>>
    /\ i' = i + 1
    /\ pc' = nextpc
    /\ UNCHANGED <<prog, kind, ext, name, extra, tdir, has_json, removals, jsons, image_paths, batch_size, lmdb, txn,
                   sql, sqlPending, pos, cur, count>>

\* lines 67-72: for i in range(count - batch_size, count)
MigRemove == prog = "mig" /\ pc = "mig_del" /\ RemoveIndexed("mig_del")

\* line 74: txn = env.begin(write=True), then the next file
MigBegin ==
    /\ prog = "mig" /\ pc = "mig_del"
    /\ i >= count
    /\ txn' = Begin(txn)
    /\ batches' = Append(batches, NewBatch(<<>>, "Accumulating"))
    /\ pos' = pos + 1
    /\ pc' = "mig_item"
    /\ UNCHANGED <<prog, kind, ext, name, extra, tdir, has_json, removals, disk, jsons, image_paths, batch_size, lmdb,
                   sql, sqlPending, cur, i, count, faults>>

\* a final removal loop that starts at count and so removes nothing
FinalStart_Skipped(c, b) == c

\* line 85: first index of the final removal loop
FinalStart(c, b) == c - (c % b)

\* lines 78-83: the final txn.commit(), on failure txn.abort(); a
\* transaction whose earlier commit failed cannot be committed any more
MigFinalCommit ==
    /\ prog = "mig" /\ pc = "mig_item"
    /\ pos >= Len(image_paths)
    /\ \E res \in Outcomes :
         IF res = "ok" /\ txn.state = "open"
         THEN /\ lmdb' = lmdb \cup txn.writes
              /\ batches' = [batches EXCEPT ![LastB].status = "Committed"]
              /\ UNCHANGED faults
         ELSE /\ batches' = [batches EXCEPT ![LastB].status = "Failed"]
              /\ faults' = faults \cup {Fault("commit")}
              /\ UNCHANGED lmdb
    /\ txn' = End(txn, "none")
    /\ i' = FinalStart(count, batch_size)
    /\ pc' = "mig_fdel"
    /\ UNCHANGED <<prog, kind, ext, name, extra, tdir, has_json, removals, disk, jsons, image_paths, batch_size, sql,
                   sqlPending, pos, cur, count>>

\* lines 85-90: for i in range(count - (count % batch_size), count)
MigFinalRemove == prog = "mig" /\ pc = "mig_fdel" /\ RemoveIndexed("mig_fdel")

\* lines 95-97: env.close()
MigClose ==
    /\ prog = "mig" /\ pc = "mig_fdel"
    /\ i >= count
    /\ pc' = "done"
    /\ UNCHANGED <<prog, kind, ext, name, extra, tdir, has_json, removals, disk, jsons, image_paths, batch_size, lmdb,
                   txn, sql, sqlPending, pos, cur, i, count, batches, faults>>

(* ------------------ delete_if_exists (DeleteIfExists.py) --------------- *)
\* the variables only the ingestion pipelines write
pipeVars == <<image_paths, batch_size, lmdb, txn, sql, sqlPending, pos, i,
              count, batches>>

Removal(op, f, ok) == [op |-> op, f |-> f, ok |-> ok]

\* line 18: target_path = root/file_name[:2]/file_name[:-4] + ".png";
\* cutting four characters off "<name>.jpeg" leaves "<name>." and names a
\* file "<name>..png" that the toolkit never writes
DifTargetExists(f) == ext[f] # "jpeg" /\ <<f, "png">> \in tdir

\* lines 22-23 and 39-42: the two existence tests
DifCheck ==
    /\ prog = "dif" /\ pc = "start"
    /\ pc' = IF DifTargetExists(cur[1]) /\ cur[1] \in disk
             THEN "dif_image" ELSE "done"
    /\ UNCHANGED <<prog, kind, ext, name, extra, cur, pipeVars, disk, jsons, tdir,
                   has_json, removals, faults>>

\* an image removal whose failure is only logged, without the sys.exit(1)
DifRemoveImage_NoExit ==
    /\ prog = "dif" /\ pc = "dif_image"
    /\ LET f == cur[1] IN
         \E rm \in Outcomes :
            IF rm = "ok"
            THEN /\ disk' = disk \ {f}
                 /\ removals' = Append(removals, Removal("image", f, TRUE))
                 /\ UNCHANGED faults
            ELSE /\ removals' = Append(removals, Removal("image", f, FALSE))
                 /\ faults' = faults \cup {Fault("remove")}
                 /\ UNCHANGED disk
    /\ pc' = "dif_json"
    /\ UNCHANGED <<prog, kind, ext, name, extra, cur, pipeVars, jsons, tdir, has_json>>

\* lines 24-29: os.remove(abs_path); on failure sys.exit(1)
DifRemoveImage ==
    /\ prog = "dif" /\ pc = "dif_image"
    /\ LET f == cur[1] IN
         \E rm \in Outcomes :
            IF rm = "ok"
            THEN /\ disk' = disk \ {f}
                 /\ removals' = Append(removals, Removal("image", f, TRUE))
                 /\ pc' = "dif_json"
                 /\ UNCHANGED faults
            ELSE /\ removals' = Append(removals, Removal("image", f, FALSE))
                 /\ pc' = "exit1"
                 /\ faults' = faults \cup {Fault("remove")}
                 /\ UNCHANGED disk
    /\ UNCHANGED <<prog, kind, ext, name, extra, cur, pipeVars, jsons, tdir, has_json>>

\* lines 31-38: os.remove(abs_path + ".json") when it exists; a failure is
\* only logged
DifRemoveJson ==
    /\ prog = "dif" /\ pc = "dif_json"
    /\ LET f == cur[1] IN
         IF f \in jsons
         THEN \E rm \in Outcomes :
                IF rm = "ok"
                THEN /\ jsons' = jsons \ {f}
                     /\ removals' = Append(removals, Removal("json", f, TRUE))
                     /\ UNCHANGED faults
                ELSE /\ removals' = Append(removals, Removal("json", f, FALSE))
                     /\ faults' = faults \cup {Fault("remove")}
                     /\ UNCHANGED jsons
         ELSE UNCHANGED <<jsons, removals, faults>>
    /\ pc' = "done"
    /\ UNCHANGED <<prog, kind, ext, name, extra, cur, pipeVars, disk, tdir, has_json>>

(* ------------ process_single_file (ResizeAndMoveAfterCheck.py) --------- *)
\* lines 27-52: isfile, has_json, pattern match, makedirs, and the test for
\* target_dir/file_name (full_path is an image file)
PsfCheck ==
    /\ prog = "psf" /\ pc = "start"
    /\ LET f == cur[1] IN
         /\ has_json' = (f \in disk /\ f \in jsons)
         /\ pc' = IF f \notin disk \/ ~Matches(f) THEN "done"
                  ELSE IF <<f, ext[f]>> \in tdir THEN "psf_dup_image"
                  ELSE "psf_save"
    /\ UNCHANGED <<prog, kind, ext, name, extra, cur, pipeVars, disk, jsons, tdir,
                   removals, faults>>

\* line 54: os.remove(full_path) of a duplicate; not inside a try, so a
\* failure raises out of the function
PsfDupRemoveImage ==
    /\ prog = "psf" /\ pc = "psf_dup_image"
    /\ LET f == cur[1] IN
         \E rm \in Outcomes :
            IF rm = "ok"
            THEN /\ disk' = disk \ {f}
                 /\ removals' = Append(removals, Removal("image", f, TRUE))
                 /\ pc' = IF has_json THEN "psf_dup_json" ELSE "done"
                 /\ UNCHANGED faults
            ELSE /\ removals' = Append(removals, Removal("image", f, FALSE))
                 /\ pc' = "raised"
                 /\ faults' = faults \cup {Fault("remove")}
                 /\ UNCHANGED disk
    /\ UNCHANGED <<prog, kind, ext, name, extra, cur, pipeVars, jsons, tdir, has_json>>

\* lines 55-57: if has_json: os.remove(json_path)
PsfDupRemoveJson ==
    /\ prog = "psf" /\ pc = "psf_dup_json"
    /\ LET f == cur[1] IN
         \E rm \in Outcomes :
            IF rm = "ok" /\ f \in jsons
            THEN /\ jsons' = jsons \ {f}
                 /\ removals' = Append(removals, Removal("json", f, TRUE))
                 /\ pc' = "done"
                 /\ UNCHANGED faults
            ELSE /\ removals' = Append(removals, Removal("json", f, FALSE))
                 /\ pc' = "raised"
                 /\ faults' = faults \cup {Fault("remove")}
                 /\ UNCHANGED jsons
    /\ UNCHANGED <<prog, kind, ext, name, extra, cur, pipeVars, disk, tdir, has_json>>

\* lines 60-68: open, convert, resize, save as target_dir/<name>.png; any
\* exception is logged at line 79 and the function returns
PsfSave ==
    /\ prog = "psf" /\ pc = "psf_save"
    /\ LET f == cur[1] IN
         \E save \in Outcomes :
            IF Decodable(f) /\ save = "ok"
            THEN /\ tdir' = tdir \cup {<<f, "png">>}
                 /\ pc' = "psf_move"
                 /\ UNCHANGED faults
            ELSE /\ pc' = "done"
                 /\ faults' = faults \cup {ItemFault(f)}
                 /\ UNCHANGED tdir
    /\ UNCHANGED <<prog, kind, ext, name, extra, cur, pipeVars, disk, jsons, has_json,
                   removals>>

\* lines 70-73: if has_json: shutil.move(json_path, target_json_path)
PsfMoveJson ==
    /\ prog = "psf" /\ pc = "psf_move"
    /\ LET f == cur[1] IN
         IF has_json
         THEN \E mv \in Outcomes :
                IF mv = "ok" /\ f \in jsons
                THEN /\ jsons' = jsons \ {f}
                     /\ tdir' = tdir \cup {<<f, "json">>}
                     /\ pc' = "psf_remove"
                     /\ UNCHANGED faults
                ELSE /\ pc' = "done"
                     /\ faults' = faults \cup {Fault("move")}
                     /\ UNCHANGED <<jsons, tdir>>
         ELSE /\ pc' = "psf_remove"
              /\ UNCHANGED <<jsons, tdir, faults>>
    /\ UNCHANGED <<prog, kind, ext, name, extra, cur, pipeVars, disk, has_json, removals>>

\* lines 75-80: os.remove(full_path); a failure is logged
PsfRemoveSource ==
    /\ prog = "psf" /\ pc = "psf_remove"
    /\ LET f == cur[1] IN
         \E rm \in Outcomes :
            IF rm = "ok"
            THEN /\ disk' = disk \ {f}
                 /\ removals' = Append(removals, Removal("image", f, TRUE))
                 /\ UNCHANGED faults
            ELSE /\ removals' = Append(removals, Removal("image", f, FALSE))
                 /\ faults' = faults \cup {Fault("remove")}
                 /\ UNCHANGED disk
    /\ pc' = "done"
    /\ UNCHANGED <<prog, kind, ext, name, extra, cur, pipeVars, jsons, tdir, has_json>>

(* -------------- save_resized_image (ResizeAndMoveByGPU.py) ------------- *)
\* lines 123-125 and 67-85: the dataset element of the file is decoded
\* before save_resized_image is called (a failure raises at the for of
\* run_pipeline); pattern match, makedirs, and the test for
\* target_dir/<name>.png
SriCheck ==
    /\ prog = "sri" /\ pc = "start"
    /\ LET f == cur[1] IN
         IF f \notin disk \/ ~Decodable(f)
         THEN /\ pc' = "raised"
              /\ faults' = faults \cup {ItemFault(f)}
         ELSE /\ pc' = IF ~Matches(f) THEN "done"
                       ELSE IF <<f, "png">> \in tdir THEN "sri_dup_image"
                       ELSE "sri_save"
              /\ UNCHANGED faults
    /\ UNCHANGED <<prog, kind, ext, name, extra, cur, pipeVars, disk, jsons, tdir,
                   has_json, removals>>

\* line 87: os.remove(image_path) of a duplicate; nothing in
\* save_resized_image or run_pipeline catches an exception
SriDupRemoveImage ==
    /\ prog = "sri" /\ pc = "sri_dup_image"
    /\ LET f == cur[1] IN
         \E rm \in Outcomes :
            IF rm = "ok"
            THEN /\ disk' = disk \ {f}
                 /\ removals' = Append(removals, Removal("image", f, TRUE))
                 /\ pc' = "sri_dup_json"
                 /\ UNCHANGED faults
            ELSE /\ removals' = Append(removals, Removal("image", f, FALSE))
                 /\ pc' = "raised"
                 /\ faults' = faults \cup {Fault("remove")}
                 /\ UNCHANGED disk
    /\ UNCHANGED <<prog, kind, ext, name, extra, cur, pipeVars, jsons, tdir, has_json>>

\* lines 88-91: if os.path.exists(json_path): os.remove(json_path)
SriDupRemoveJson ==
    /\ prog = "sri" /\ pc = "sri_dup_json"
    /\ LET f == cur[1] IN
         IF f \in jsons
         THEN \E rm \in Outcomes :
                IF rm = "ok"
                THEN /\ jsons' = jsons \ {f}
                     /\ removals' = Append(removals, Removal("json", f, TRUE))
                     /\ pc' = "done"
                     /\ UNCHANGED faults
                ELSE /\ removals' = Append(removals, Removal("json", f, FALSE))
                     /\ pc' = "raised"
                     /\ faults' = faults \cup {Fault("remove")}
                     /\ UNCHANGED jsons
         ELSE /\ pc' = "done"
              /\ UNCHANGED <<jsons, removals, faults>>
    /\ UNCHANGED <<prog, kind, ext, name, extra, cur, pipeVars, disk, tdir, has_json>>

\* lines 94-98: array_to_img, img.save(final_image_path, format="PNG")
SriSave ==
    /\ prog = "sri" /\ pc = "sri_save"
    /\ LET f == cur[1] IN
         \E save \in Outcomes :
            IF save = "ok"
            THEN /\ tdir' = tdir \cup {<<f, "png">>}
                 /\ pc' = "sri_move"
                 /\ UNCHANGED faults
            ELSE /\ pc' = "raised"
                 /\ faults' = faults \cup {ItemFault(f)}
                 /\ UNCHANGED tdir
    /\ UNCHANGED <<prog, kind, ext, name, extra, cur, pipeVars, disk, jsons, has_json,
                   removals>>

\* lines 101-103: if os.path.exists(json_path): shutil.move(json_path, ...)
SriMoveJson ==
    /\ prog = "sri" /\ pc = "sri_move"
    /\ LET f == cur[1] IN
         IF f \in jsons
         THEN \E mv \in Outcomes :
                IF mv = "ok"
                THEN /\ jsons' = jsons \ {f}
                     /\ tdir' = tdir \cup {<<f, "json">>}
                     /\ pc' = "sri_remove"
                     /\ UNCHANGED faults
                ELSE /\ pc' = "raised"
                     /\ faults' = faults \cup {Fault("move")}
                     /\ UNCHANGED <<jsons, tdir>>
         ELSE /\ pc' = "sri_remove"
              /\ UNCHANGED <<jsons, tdir, faults>>
    /\ UNCHANGED <<prog, kind, ext, name, extra, cur, pipeVars, disk, has_json, removals>>

\* line 106: os.remove(image_path)
SriRemoveSource ==
    /\ prog = "sri" /\ pc = "sri_remove"
    /\ LET f == cur[1] IN
         \E rm \in Outcomes :
            IF rm = "ok"
            THEN /\ disk' = disk \ {f}
                 /\ removals' = Append(removals, Removal("image", f, TRUE))
                 /\ pc' = "done"
                 /\ UNCHANGED faults
            ELSE /\ removals' = Append(removals, Removal("image", f, FALSE))
                 /\ pc' = "raised"
                 /\ faults' = faults \cup {Fault("remove")}
                 /\ UNCHANGED disk
    /\ UNCHANGED <<prog, kind, ext, name, extra, cur, pipeVars, jsons, tdir, has_json>>

(* ------- archive_json_files (ResizeAndToLMDB.py, LMDBMigration.py) ----- *)
\* the variables archive_json_files leaves alone
arcRest == <<prog, kind, ext, name, image_paths, batch_size, lmdb, txn, sql,
             sqlPending, pos, count, batches, disk, tdir, has_json,
             removals, depth, found, payload, record, late>>

\* lines 270-276: rglob("*.json"); with no sidecar the function returns;
\* tarfile.open(archive_path, "w") creates the archive or truncates the
\* one that is there.  A failure to open is logged at line 286.
ArcOpen ==
    /\ prog = "arc" /\ pc = "start"
    /\ IF jsons = {}
       THEN /\ pc' = "arc_end"
            /\ UNCHANGED <<tar, cur, i, faults>>
       ELSE \E open \in Outcomes :
              IF open = "ok"
              THEN /\ tar' = [tar EXCEPT !.exists = TRUE, !.entries = <<>>]
                   /\ cur' = ScanSeq(jsons)
                   /\ i' = 1
                   /\ pc' = "arc_add"
                   /\ UNCHANGED faults
              ELSE /\ pc' = "arc_end"
                   /\ faults' = faults \cup {Fault("open")}
                   /\ UNCHANGED <<tar, cur, i>>
    /\ UNCHANGED <<arcRest, jsons>>

\* lines 277-282: tar.add(json_file, arcname=...); a failure is logged and
\* the loop goes on
ArcAdd ==
    /\ prog = "arc" /\ pc = "arc_add"
    /\ i <= Len(cur)
    /\ \E add \in Outcomes :
         IF add = "ok" /\ cur[i] \in jsons
         THEN /\ tar' = [tar EXCEPT !.entries = Append(@, cur[i])]
              /\ UNCHANGED faults
         ELSE /\ faults' = faults \cup {Fault("add")}
              /\ UNCHANGED tar
    /\ i' = i + 1
    /\ UNCHANGED <<arcRest, jsons, cur, pc>>

\* an archiving pass that deletes the sidecars it has archived
ArcClose_Purge ==
    /\ prog = "arc" /\ pc = "arc_add"
    /\ i > Len(cur)
    /\ jsons' = jsons \ Range(tar.entries)
    /\ pc' = "arc_end"
    /\ UNCHANGED <<arcRest, tar, cur, i, faults>>

\* lines 276 and 284: the with block closes the archive; the sidecars
\* stay where they are
ArcClose ==
    /\ prog = "arc" /\ pc = "arc_add"
    /\ i > Len(cur)
    /\ pc' = "arc_end"
    /\ UNCHANGED <<arcRest, jsons, tar, cur, i, faults>>

\* The next run of a pipeline archives again, into the same path; in
\* between, sidecars may have come (new downloads) or gone (reclaimed
\* duplicates).
ArcAgain ==
    /\ prog = "arc" /\ pc = "arc_end"
    /\ tar.pass < MaxPasses
    /\ tar' = [tar EXCEPT !.pass = @ + 1, !.before = tar.entries]
    /\ jsons' \in SUBSET Files
    /\ pc' = "start"
    /\ UNCHANGED <<arcRest, cur, i, faults>>

(* ---------------------------- the scanners ----------------------------- *)
\* the variables the scanners and parse_json leave alone
others == <<prog, kind, disk, jsons, image_paths, batch_size, lmdb, txn, sql,
            sqlPending, pos, cur, i, count, batches, faults, ext, name, tdir,
            has_json, removals, tar, late>>

\* collect_image_files(root_dir), ResizeAndToLMDB.py lines 73-84
ScanOneLevel ==
    /\ prog = "scan" /\ pc = "start"
    /\ found' = collect_image_files(disk)
    /\ pc' = "scanned"
    /\ UNCHANGED <<others, depth, payload, record>>

\* collect_all_image_files(root_path), ResizeAndToLMDB.py lines 86-100
ScanRecursive ==
    /\ prog = "scan" /\ pc = "start"
    /\ found' = collect_all_image_files(disk)
    /\ pc' = "scanned"
    /\ UNCHANGED <<others, depth, payload, record>>

\* LMDBMigration.py line 47
ScanMigration ==
    /\ prog = "scan" /\ pc = "start"
    /\ found' = [by |-> "rglob", none |-> FALSE,
                 files |-> Range(MigScan(disk))]
    /\ pc' = "scanned"
    /\ UNCHANGED <<others, depth, payload, record>>

(* ----------------------------- parse_json ------------------------------ *)
\* parse_json of ResizeAndToLMDB.py, lines 144-195
ParseJsonLmdb ==
    /\ prog = "json" /\ pc = "start"
    /\ record' = parse_json(payload)
    /\ pc' = "parsed"
    /\ UNCHANGED <<others, depth, found, payload>>

\* parse_json of CreateMetadataSqlite.py, lines 70-137
ParseJsonSqlite ==
    /\ prog = "json" /\ pc = "start"
    /\ record' = parse_json_sqlite(payload)
    /\ pc' = "parsed"
    /\ UNCHANGED <<others, depth, found, payload>>
(* ------------------------- store_metadata_to_db ------------------------ *)
\* the variables of the earlier sections, pc excepted
earlier == <<prog, kind, disk, jsons, image_paths, batch_size, lmdb, txn,
             sql, sqlPending, pos, cur, i, count, batches, faults, ext, name,
             tdir, has_json, removals, tar, depth, found, payload, record>>

\* store_metadata_to_db(conn, record), ResizeAndToLMDB.py lines 198-208:
\* one INSERT OR REPLACE and its commit
StoreMetadata ==
    /\ prog = "ups" /\ pc = "start"
    /\ Len(ups) < MaxUpserts
    /\ \E r \in Records :
         /\ table' = [table EXCEPT
                         !.rows = InsertOrReplace(table.schema, @, r)]
         /\ ups' = Append(ups, r)
    /\ UNCHANGED <<pc, earlier, geo, root_isdir, pool, img, conn>>

(* ------------------------ resize_with_aspect_ratio --------------------- *)
\* resize_with_aspect_ratio(img, target_size, bg_color),
\* ResizeImageWithAspectRatio.py lines 32-53
ResizeWithAspectRatio ==
    /\ prog = "geo" /\ pc = "start"
    /\ geo' = resize_with_aspect_ratio(geo)
    /\ pc' = IF geo'.state = "raised" THEN "raised" ELSE "resized"
    /\ UNCHANGED <<earlier, table, ups, root_isdir, pool, img, conn>>

(* --------------------- main (ResizeAndToLMDB.py) ----------------------- *)
mainRest == <<kind, disk, jsons, image_paths, batch_size, lmdb, txn, sql,
              sqlPending, pos, cur, i, count, batches, ext, name, tdir,
              has_json, removals, tar, depth, found, payload, record, late>>

\* lines 298 and 310-311: the else branch formats args.pat, an attribute
\* the parser never defines; the AttributeError ends the run
MainCheckRoot ==
    /\ prog = "main" /\ pc = "start"
    /\ pc' = IF root_isdir THEN "main_init" ELSE "raised"
    /\ UNCHANGED <<prog, faults, mainRest>>

\* lines 300-301: init_db(args.db_path); sqlite3.connect is not guarded
MainInitDb ==
    /\ prog = "main" /\ pc = "main_init"
    /\ \E open \in Outcomes :
         IF open = "fail"
         THEN /\ pc' = "raised"
              /\ faults' = faults \cup {Fault("open")}
         ELSE /\ pc' = "main_collect"
              /\ UNCHANGED faults
    /\ UNCHANGED <<prog, mainRest>>

\* lines 302-308: main returns when the scan gave None, and hands the
\* files to process_and_store otherwise
MainCollect ==
    /\ prog = "main" /\ pc = "main_collect"
    /\ IF collect_all_image_files(disk).none
       THEN pc' = "done" /\ prog' = prog
       ELSE pc' = "start" /\ prog' = "pas"
    /\ UNCHANGED <<faults, mainRest>>

(* ------------ run_multiprocessing (ResizeAndMoveAfterCheck.py) --------- *)
poolRest == <<prog, kind, image_paths, batch_size, lmdb, txn, sql,
              sqlPending, pos, cur, i, count, batches, faults, ext, name,
              has_json, removals, tar, depth, found, payload, record, table,
              ups, geo, root_isdir, img, conn>>

\* the image task, lines 27-52: isfile, has_json, the pattern and the
\* duplicate test
PoolImageCheck ==
    /\ prog = "pool" /\ pool.img = "check"
    /\ LET f == cur[1] IN
         pool' = [pool EXCEPT
                    !.has_json = (f \in disk /\ f \in jsons),
                    !.img = IF f \notin disk \/ ~Matches(f) THEN "end"
                            ELSE IF <<f, ext[f]>> \in tdir THEN "dup_image"
                            ELSE "save"]
    /\ UNCHANGED <<pc, disk, jsons, tdir, poolRest>>

\* line 54: os.remove(full_path) of a duplicate
PoolImageDupRemove ==
    /\ prog = "pool" /\ pool.img = "dup_image"
    /\ disk' = disk \ {cur[1]}
    /\ pool' = [pool EXCEPT !.img = IF pool.has_json THEN "dup_json"
                                    ELSE "end"]
    /\ UNCHANGED <<pc, jsons, tdir, poolRest>>

\* lines 55-56: os.remove(json_path), outside every try
PoolImageDupRemoveJson ==
    /\ prog = "pool" /\ pool.img = "dup_json"
    /\ IF cur[1] \in jsons
       THEN /\ jsons' = jsons \ {cur[1]}
            /\ pool' = [pool EXCEPT !.img = "end"]
       ELSE /\ pool' = [pool EXCEPT !.img = "raised",
                                    !.failed = @ \cup {"img"}]
            /\ UNCHANGED jsons
    /\ UNCHANGED <<pc, disk, tdir, poolRest>>

\* lines 60-68: open, resize, save as target_dir/<name>.png
PoolImageSave ==
    /\ prog = "pool" /\ pool.img = "save"
    /\ IF Decodable(cur[1])
       THEN /\ tdir' = tdir \cup {<<cur[1], "png">>}
            /\ pool' = [pool EXCEPT !.img = "move"]
       ELSE /\ pool' = [pool EXCEPT !.img = "end"]
            /\ UNCHANGED tdir
    /\ UNCHANGED <<pc, disk, jsons, poolRest>>

\* lines 70-73: shutil.move(json_path, target_json_path) when has_json;
\* the exception of a missing sidecar is caught at line 79
PoolImageMoveJson ==
    /\ prog = "pool" /\ pool.img = "move"
    /\ LET f == cur[1] IN
         IF ~pool.has_json
         THEN /\ pool' = [pool EXCEPT !.img = "remove"]
              /\ UNCHANGED <<jsons, tdir>>
         ELSE IF f \in jsons
         THEN /\ jsons' = jsons \ {f}
              /\ tdir' = tdir \cup {<<f, "json">>}
              /\ pool' = [pool EXCEPT !.img = "remove"]
         ELSE /\ pool' = [pool EXCEPT !.img = "end",
                                      !.failed = @ \cup {"img"}]
              /\ UNCHANGED <<jsons, tdir>>
    /\ UNCHANGED <<pc, disk, poolRest>>

\* line 76: os.remove(full_path)
PoolImageRemove ==
    /\ prog = "pool" /\ pool.img = "remove"
    /\ disk' = disk \ {cur[1]}
    /\ pool' = [pool EXCEPT !.img = "end"]
    /\ UNCHANGED <<pc, jsons, tdir, poolRest>>

\* the sidecar task, lines 27-52: full_path is <image>.json, so the
\* pattern is matched against the image name, has_json is False (there is
\* no <image>.json.json) and the duplicate test looks for the sidecar's
\* name in the id-prefix directory
PoolJsonCheck ==
    /\ prog = "pool" /\ pool.js = "check"
    /\ LET f == cur[1] IN
         pool' = [pool EXCEPT
                    !.js = IF f \notin jsons \/ ~Matches(f) THEN "end"
                           ELSE IF <<f, "json">> \in tdir THEN "dup"
                           ELSE "remove"]
    /\ UNCHANGED <<pc, disk, jsons, tdir, poolRest>>

\* line 54: os.remove(full_path) of a duplicate sidecar, outside every try
PoolJsonDupRemove ==
    /\ prog = "pool" /\ pool.js = "dup"
    /\ IF cur[1] \in jsons
       THEN /\ jsons' = jsons \ {cur[1]}
            /\ pool' = [pool EXCEPT !.js = "end"]
       ELSE /\ pool' = [pool EXCEPT !.js = "raised",
                                    !.failed = @ \cup {"js"}]
            /\ UNCHANGED jsons
    /\ UNCHANGED <<pc, disk, tdir, poolRest>>

\* lines 60-76 for the sidecar: ".json" is not in VALID_EXTS, so nothing
\* is saved; has_json is False, so nothing is moved; os.remove(full_path)
\* removes the sidecar (a failure is caught at line 79)
PoolJsonRemove ==
    /\ prog = "pool" /\ pool.js = "remove"
    /\ jsons' = jsons \ {cur[1]}
    /\ pool' = [pool EXCEPT !.js = "end",
                            !.failed = IF cur[1] \in jsons THEN @
                                       ELSE @ \cup {"js"}]
    /\ UNCHANGED <<pc, disk, tdir, poolRest>>

\* lines 97-98: pool.map returns, or re-raises the exception of a task
PoolJoin ==
    /\ prog = "pool" /\ pc = "start"
    /\ pool.img \in {"end", "raised"} /\ pool.js \in {"end", "raised"}
    /\ pc' = IF "raised" \in {pool.img, pool.js} THEN "raised" ELSE "done"
    /\ UNCHANGED <<disk, jsons, tdir, pool, poolRest>>

(* ------------- process_image (ResizeImageWithAspectRatio.py) ----------- *)
imageRest == <<prog, kind, disk, jsons, image_paths, batch_size, lmdb, txn,
               sql, sqlPending, pos, cur, i, count, batches, ext, name,
               tdir, has_json, removals, tar, depth, found, payload, record,
               table, ups, geo, root_isdir, pool, conn>>

\* lines 62-65: Image.open, convert, resize, and the start of
\* resized.save(resized_temp_path): the file is created or truncated.  An
\* exception (an undecodable source, a size that cannot be resized) is
\* caught at line 70.
ImageSaveBegin ==
    /\ prog = "image" /\ pc = "start"
    /\ \E open \in Outcomes :
         IF open = "fail"
         THEN /\ pc' = "done"
              /\ faults' = faults \cup {Fault("open")}
              /\ UNCHANGED img
         ELSE /\ img' = [img EXCEPT !.fs[SavePath] = "partial"]
              /\ pc' = "image_saving"
              /\ UNCHANGED faults
    /\ UNCHANGED imageRest

\* line 65: resized.save(...) writes the last byte and closes the file, or
\* raises with the file half written
ImageSaveEnd ==
    /\ prog = "image" /\ pc = "image_saving"
    /\ \E save \in Outcomes :
         IF save = "fail"
         THEN /\ pc' = "done"
              /\ faults' = faults \cup {Fault("put")}
              /\ UNCHANGED img
         ELSE /\ img' = [img EXCEPT !.fs[SavePath] = "resized"]
              /\ pc' = "image_remove"
              /\ UNCHANGED faults
    /\ UNCHANGED imageRest

\* line 67: os.remove(path)
ImageRemove ==
    /\ prog = "image" /\ pc = "image_remove"
    /\ \E rm \in Outcomes :
         IF rm = "fail"
         THEN /\ pc' = "done"
              /\ faults' = faults \cup {Fault("remove")}
              /\ UNCHANGED img
         ELSE /\ img' = [img EXCEPT !.fs[img.path] = "none"]
              /\ pc' = "image_replace"
              /\ UNCHANGED faults
    /\ UNCHANGED imageRest

\* line 68: os.replace(resized_temp_path, final_path)
ImageReplace ==
    /\ prog = "image" /\ pc = "image_replace"
    /\ \E mv \in Outcomes :
         IF mv = "fail"
         THEN /\ faults' = faults \cup {Fault("move")}
              /\ UNCHANGED img
         ELSE /\ img' = [img EXCEPT !.fs[FinalPath] = img.fs[SavePath],
                                    !.fs[SavePath] = "none"]
              /\ UNCHANGED faults
    /\ pc' = "done"
    /\ UNCHANGED imageRest

(* ----------------- insert_batch (CreateMetadataSqlite.py) -------------- *)
\* lines 142-149: an empty list returns at once; sqlite3.connect stands
\* outside the try, so its failure leaves the function as an exception;
\* then BEGIN TRANSACTION
BatchBegin ==
    /\ prog = "batch" /\ pc = "start"
    /\ IF conn.records = <<>>
       THEN pc' = "done" /\ UNCHANGED conn
       ELSE \E opened \in BOOLEAN :
              IF opened
              THEN /\ conn' = [conn EXCEPT !.state = "open", !.k = 1,
                                           !.pending = table.rows,
                                           !.before = table.rows]
                   /\ pc' = "batch_insert"
              ELSE pc' = "raised" /\ UNCHANGED conn
    /\ UNCHANGED <<earlier, table, ups, geo, root_isdir, pool, img>>

\* lines 150-154: cursor.execute of the INSERT OR REPLACE of one record;
\* when it raises, lines 156-160: conn.rollback(), then conn.close()
BatchInsert ==
    /\ prog = "batch" /\ pc = "batch_insert"
    /\ LET r == conn.records[conn.k] IN
         IF r.title.t # "list"
         THEN /\ conn' = [conn EXCEPT
                            !.pending = InsertOrReplace(table.schema, @, r),
                            !.k = @ + 1]
              /\ pc' = IF conn.k = Len(conn.records) THEN "batch_commit"
                       ELSE "batch_insert"
              /\ UNCHANGED table
         ELSE /\ table' = [table EXCEPT
                             !.rows = RolledBack(@, conn.pending)]
              /\ conn' = [conn EXCEPT !.state = "closed", !.raised = TRUE]
              /\ pc' = "done"
    /\ UNCHANGED <<earlier, ups, geo, root_isdir, pool, img>>

\* lines 155-160: conn.commit(), when it raises conn.rollback(); then
\* conn.close()
BatchCommit ==
    /\ prog = "batch" /\ pc = "batch_commit"
    /\ \E committed \in BOOLEAN :
         IF committed
         THEN /\ table' = [table EXCEPT !.rows = conn.pending]
              /\ conn' = [conn EXCEPT !.state = "closed"]
         ELSE /\ table' = [table EXCEPT
                             !.rows = RolledBack(@, conn.pending)]
              /\ conn' = [conn EXCEPT !.state = "closed", !.raised = TRUE]
    /\ pc' = "done"
    /\ UNCHANGED <<earlier, ups, geo, root_isdir, pool, img>>

(* --------------------------- the environment --------------------------- *)
\* the positions at which a run has ended
Stopped == {"done", "raised", "exit1", "crashed", "interrupted", "arc_end",
            "scanned", "parsed", "resized"}

\* The process dies: an open LMDB transaction and uncommitted SQLite rows
\* are lost, everything durable stays.  The death is one of the at most
\* MaxFaults failures of a run.
Crash ==
    /\ pc \notin Stopped \cup {"start"}
    /\ Injected < MaxFaults
    /\ pc' = "crashed"
    /\ txn' = NoTxn
    /\ sqlPending' = {}
    /\ faults' = faults \cup {Fault("crash")}
    /\ UNCHANGED <<prog, kind, ext, name, extra, tdir, has_json, removals, disk, jsons, image_paths, batch_size, lmdb,
                   sql, pos, cur, i, count, batches>>

\* A shutdown request (SIGINT) reaches an ingestion pipeline.  Neither
\* script installs a signal handler or tests a stop flag: the
\* KeyboardInterrupt is raised at the statement being executed, the
\* "except Exception" clauses do not catch it, and the run ends there; the
\* open transaction is dropped with the environment.  The request comes
\* to a run in which nothing has failed so far.
Interrupt ==
    /\ prog \in {"pas", "mig"}
    /\ pc \notin Stopped
    /\ Injected = 0
    /\ pc' = "interrupted"
    /\ txn' = NoTxn
    /\ sqlPending' = {}
    /\ faults' = faults \cup {Fault("shutdown")}
    /\ UNCHANGED <<prog, kind, ext, name, extra, tdir, has_json, removals, disk, jsons, image_paths, batch_size, lmdb,
                   sql, pos, cur, i, count, batches>>

Next ==
    \/ PasOpen
    \/ PasNextBatch
    \/ PasItem
    \/ PasMeta
    \/ PasRemove
    \/ PasCommit
    \/ PasClose
    \/ MigOpen
    \/ MigItem
    \/ MigCommit
    \/ MigRemove
    \/ MigBegin
    \/ MigFinalCommit
    \/ MigFinalRemove
    \/ MigClose
    \/ DifCheck
    \/ DifRemoveImage
    \/ DifRemoveJson
    \/ PsfCheck
    \/ PsfDupRemoveImage
    \/ PsfDupRemoveJson
    \/ PsfSave
    \/ PsfMoveJson
    \/ PsfRemoveSource
    \/ SriCheck
    \/ SriDupRemoveImage
    \/ SriDupRemoveJson
    \/ SriSave
    \/ SriMoveJson
    \/ SriRemoveSource
    \/ ArcOpen
    \/ ArcAdd
    \/ ArcClose
    \/ ArcAgain
    \/ ScanOneLevel
    \/ ScanRecursive
    \/ ScanMigration
    \/ ParseJsonLmdb
    \/ ParseJsonSqlite
    \/ StoreMetadata
    \/ ResizeWithAspectRatio
    \/ MainCheckRoot
    \/ MainInitDb
    \/ MainCollect
    \/ PoolImageCheck
    \/ PoolImageDupRemove
    \/ PoolImageDupRemoveJson
    \/ PoolImageSave
    \/ PoolImageMoveJson
    \/ PoolImageRemove
    \/ PoolJsonCheck
    \/ PoolJsonDupRemove
    \/ PoolJsonRemove
    \/ PoolJoin
    \/ ImageSaveBegin
    \/ ImageSaveEnd
    \/ ImageRemove
    \/ ImageReplace
    \/ BatchBegin
    \/ BatchInsert
    \/ BatchCommit
    \/ Crash
    \/ Interrupt

Spec == Init /\ [][Next]_vars

(* ------------------------------ properties ---------------------------- *)
Pipelines == {"pas", "mig"}
NB == 1..Len(batches)
Items(k) == Range(batches[k].items)
\* the sources the run has removed so far
Removed == Range(image_paths) \ disk
\* every failure so far is of one of the kinds of S
OnlyFaults(S) == \A u \in faults : u[1] \in S
\* the items a pipeline is meant to store: process_and_store takes the
\* files named by the identifier pattern, process_images_to_lmdb all files
Queued(f) == prog = "mig" \/ Matches(f)
\* the file came with a sidecar
HadJson(f) == kind[f] \in {"ok", "badjson"}

\* C1: in every reachable state a removed source belongs to a batch whose
\* LMDB transaction has already committed; no source is removed while its
\* batch is Accumulating or Committing, or after it ended Failed.
C1_RemovedOnlyAfterCommit ==
    prog \in Pipelines =>
      \A f \in Removed :
        \E k \in NB : f \in Items(k) /\ batches[k].status = "Committed"

\* C2: the blob transaction of a batch is resolved before any relational
\* upsert of the batch is committed: the durable illusts table never holds
\* a row of an item whose blob is not durably in LMDB.
C2_NoRowWithoutBlob ==
    \A f \in sql : Key(f) \in lmdb

\* C3: when the LMDB commit of a batch fails, none of the relational
\* upserts performed for the items of that batch is retained.
C3_FailedBatchKeepsNoRows ==
    \A k \in NB :
      batches[k].status = "Failed" => batches[k].recs \cap sql = {}

\* C4: at the end of a run of process_and_store (here: one in which nothing
\* but LMDB commits failed) a source has been deleted if and only if its key was committed
\* to LMDB and its available metadata record was committed to SQLite.
C4_DeletedIffDurable ==
    (prog = "pas" /\ pc = "done" /\ OnlyFaults({"commit"})) =>
      \A f \in Range(image_paths) :
        (f \notin disk) <=>
          (Key(f) \in lmdb /\ (HadJson(f) /\ ParseJson(f) => f \in sql))

\* C5: a batch is all-or-nothing across both stores: once its commit was
\* attempted, or the process crashed, either every blob written for it is
\* durably in LMDB and every record upserted for it is durably in SQLite,
\* or none of them is in either store.
AllIn(k) ==
    /\ \A f \in batches[k].stored : Key(f) \in lmdb
    /\ batches[k].recs \subseteq sql
NoneIn(k) ==
    /\ \A f \in batches[k].stored : Key(f) \notin lmdb
    /\ batches[k].recs \cap sql = {}
C5_AllOrNothing ==
    OnlyFaults({"commit", "crash"}) =>
      \A k \in NB :
        (batches[k].status \in {"Committed", "Failed"} \/ pc = "crashed")
          => (AllIn(k) \/ NoneIn(k))

\* C6: in a run without failures the n listed items are cut into
\* consecutive batches of exactly batch_size items, except possibly a final
\* batch of n mod batch_size items; every batch, the final partial one
\* included, is committed and its sources are removed.
C6_ConsecutiveBatches ==
    (prog \in Pipelines /\ pc = "done" /\ faults = {}) =>
      LET n == Len(image_paths)
          b == batch_size
          m == Len(batches)
      IN /\ m * b >= n
         /\ \A k \in 1..m :
              /\ batches[k].items =
                   SubSeq(image_paths, (k - 1) * b + 1, Min(k * b, n))
              /\ k < m => Len(batches[k].items) = b
              /\ k = m => Len(batches[k].items) \in {b, n % b}
              /\ batches[k].status = "Committed"
              /\ \A f \in Items(k) :
                   Queued(f) => f \notin disk /\ Key(f) \in lmdb

\* C6 witness: batch size 2 and three files give {A,B} and {C}, both
\* committed, all three sources removed
C6_Witness ==
    /\ prog \in Pipelines /\ pc = "done" /\ faults = {}
    /\ batch_size = 2 /\ image_paths = <<1, 2, 3>>
    /\ name = [f \in Files |-> f]
    /\ Len(batches) = 2
    /\ batches[2].items = <<3>> /\ batches[2].status = "Committed"
    /\ disk = {} /\ lmdb = {1, 2, 3}

\* C7: for every batch exactly one write transaction is opened and resolved
\* on LMDB and exactly one is committed on SQLite, however many metadata
\* records the batch contains (checked on runs without failures, for the
\* batches that have records).
C7_OneTransactionPerStore ==
    faults = {} =>
      \A k \in NB :
        (batches[k].status = "Committed" /\ batches[k].recs # {}) =>
          (batches[k].blobTxns = 1 /\ batches[k].sqlCommits = 1)

\* C8: a decode or encode failure of one item never fails its batch or the
\* run: when nothing else fails, the run does not raise, the failing items
\* are neither stored nor deleted, and every other item is stored,
\* committed and removed.
C8_ItemFailureIsolated ==
    (prog \in Pipelines /\ Clean) =>
      /\ pc # "raised"
      /\ pc = "done" =>
           \A f \in Range(image_paths) :
             IF f \in FailedItems
             THEN f \in disk /\ Key(f) \notin lmdb
             ELSE Queued(f) => (f \notin disk /\ Key(f) \in lmdb)

\* C9: after a batch ended Failed all of its source files are still on
\* disk, so that the scan of a subsequent run finds every item of it again.
C9_FailedBatchSourcesRemain ==
    (prog \in Pipelines /\ OnlyFaults({"commit"})) =>
      \A k \in NB : batches[k].status = "Failed" => Items(k) \subseteq disk

\* the reclaim helpers remove a sidecar only after the removal of its image
\* succeeded; a failed image removal ends the reclaim with the sidecar
\* not deleted (it is where it was, or was moved next to the resized copy)
ReclaimOrder ==
    \A j \in 1..Len(removals) :
      /\ removals[j].op = "json" =>
           \E h \in 1..(j - 1) :
             removals[h] = Removal("image", removals[j].f, TRUE)
      /\ (removals[j].op = "image" /\ ~removals[j].ok) =>
           /\ j = Len(removals)
           /\ HadJson(removals[j].f) =>
                (removals[j].f \in jsons \/ <<removals[j].f, "json">> \in tdir)
\* once a reclaim helper has removed an image and has returned, the sidecar
\* is gone too unless its own removal failed
SidecarFollows ==
    (prog \in {"dif", "psf"} /\ pc = "done") =>
      \A j \in 1..Len(removals) :
        (/\ removals[j] = Removal("image", removals[j].f, TRUE)
         /\ \A h \in 1..Len(removals) :
              removals[h] # Removal("json", removals[j].f, FALSE))
          => removals[j].f \notin jsons

Helpers == {"dif", "psf", "sri"}

\* C11: when the image deletion succeeded and the sidecar deletion fails,
\* the failure is absorbed: nothing is raised out of the reclaim step, so
\* the run goes on, and the orphan sidecar stays on disk.
C11_SidecarFailureAbsorbed ==
    prog \in Helpers =>
      \A j \in 1..Len(removals) :
        removals[j] = Removal("json", removals[j].f, FALSE) =>
          /\ pc # "raised"
          /\ removals[j].f \in jsons
          /\ removals[j].f \notin disk

\* the tree holds no source image and the run has found none
Reclaimed == disk = {} /\ image_paths = <<>>
\* the sidecars of the tree have been archived by an earlier pass
Archived == jsons = {} \/ tar.exists

\* C12: a run on a tree in which every source image was already reclaimed
\* changes nothing: no step of it puts a blob, upserts a row or removes or
\* adds a file (the steps of the ingestion and of the archiving pass
\* leave the blob store, the relational store and the files on disk as
\* they were).
C12_RerunChangesNothing ==
    [][(/\ prog \in Pipelines \cup {"arc"}
        /\ Reclaimed /\ Archived
        /\ pc # "arc_end")
       => /\ lmdb' = lmdb /\ sql' = sql
          /\ disk' = disk /\ jsons' = jsons /\ tdir' = tdir
          /\ tar'.exists = tar.exists
          /\ txn'.writes = {} /\ sqlPending' = {}
          /\ removals' = removals]_vars

\* C12 witness: the migration has run to its end on a reclaimed tree whose
\* stores hold the blobs of the earlier run and whose sidecars are left
C12_Witness ==
    /\ prog = "mig" /\ pc = "done"
    /\ Reclaimed /\ faults = {}
    /\ lmdb = Files /\ jsons # {} /\ tar.exists
    /\ Len(batches) = 1 /\ batches[1].status = "Committed"

\* C16: the sidecar archive is append-only: every entry that was in
\* metadata_jsons.tar before an archiving pass is still in it after the
\* pass, for any number of passes over the same archive path.
C16_ArchiveAppendOnly ==
    (prog = "arc" /\ pc = "arc_end" /\ faults = {}) =>
      Range(tar.before) \subseteq Range(tar.entries)

C14_CommitFailureIsPerBatch ==
    (prog \in Pipelines /\ pc = "done" /\ OnlyFaults({"commit", "dead"})) =>
      \A f \in Range(image_paths) :
        Queued(f) =>
          \E k \in NB : /\ f \in batches[k].stored
                        /\ batches[k].status \in {"Committed", "Failed"}

\* C15: a shutdown request that arrives while a batch is in flight is
\* honoured only at the batch boundary: the run never stops on it with a
\* batch whose items were partly written or partly deleted and whose blob
\* transaction is neither committed nor aborted.
C15_ShutdownAtBatchBoundary ==
    (prog \in Pipelines /\ pc = "interrupted"
       /\ OnlyFaults({"shutdown"})) =>
      \A k \in NB :
        batches[k].status \in {"Accumulating", "Committing"} =>
          batches[k].stored = {} /\ batches[k].removed = {}

\* the extensions that are, case-insensitively, .jpg, .jpeg or .png
ImageExts == {"png", "jpg", "jpeg", "JPG"}

\* C17: for either depth policy (one level with collect_image_files,
\* recursive with collect_all_image_files or the scan of the migration)
\* the scanner returns exactly the files under the root whose extension
\* is, case-insensitively, .jpg, .jpeg or .png, and changes nothing on
\* disk.
C17_ScannerExact ==
    /\ []((prog = "scan" /\ pc = "scanned") =>
           /\ ~found.none
           /\ found.files =
                {f \in disk :
                   /\ ext[f] \in ImageExts
                   /\ found.by = "collect_image_files" => depth[f] = 0})
    /\ [][prog = "scan" =>
            /\ disk' = disk /\ jsons' = jsons /\ tdir' = tdir
            /\ ext' = ext /\ depth' = depth]_vars

\* C18: parse_json returns no record only when the payload cannot be
\* parsed as JSON at all; for a parseable payload (here: a JSON object
\* whose image is there) a record is returned whatever the presence, type
\* or value of the fields.
C18_RecordUnlessUnparseable ==
    (prog = "json" /\ pc = "parsed"
       /\ payload.kind \in {"bad", "dict"} /\ payload.image) =>
      (record.none <=> payload.kind = "bad")

\* the value is a list of strings
ListOfStrings(x) ==
    x.t = "list" /\ \A k \in 1..Len(x.v) : x.v[k].t = "str"
\* the tag list of the payload, as a list of strings
TagList == IF payload.tags.t = "absent" THEN <<>>
           ELSE [k \in 1..Len(payload.tags.v) |-> payload.tags.v[k].v]
\* where the k-th item of list l starts in the joined string, less one
RECURSIVE Offset(_, _)
Offset(l, k) == IF k = 1 THEN 0
                ELSE Offset(l, k - 1) + Len(l[k - 1]) + 1
\* out is the items of l in list order with one comma between neighbours
IsJoined(out, l) ==
    /\ Len(out) = IF Len(l) = 0 THEN 0 ELSE Offset(l, Len(l) + 1) - 1
    /\ \A k \in 1..Len(l) :
         SubSeq(out, Offset(l, k) + 1, Offset(l, k) + Len(l[k])) = l[k]
    /\ \A k \in 2..Len(l) : out[Offset(l, k)] = ","

\* C19: the tags field of the extracted record is the tag list joined with
\* commas in list order: an empty or absent list gives the empty string,
\* never null, and ["a","b"] gives exactly a,b.
C19_TagsCommaJoined ==
    (/\ prog = "json" /\ pc = "parsed" /\ ~record.none
     /\ payload.tags.t = "absent" \/ ListOfStrings(payload.tags)) =>
      /\ record.tags.t = "str"
      /\ IsJoined(record.tags.v, TagList)
      /\ TagList = <<>> => record.tags = Str(<<>>)
      /\ TagList = << <<"a">>, <<"b">> >> =>
           record.tags = Str(<<"a", ",", "b">>)

\* C19 witness: the record of a sidecar whose tag list is ["a","b"]
C19_Witness ==
    /\ prog = "json" /\ pc = "parsed" /\ ~record.none
    /\ payload.tags = List(<<Str(<<"a">>), Str(<<"b">>)>>)
    /\ record.tags = Str(<<"a", ",", "b">>)

\* the timestamp strings that are valid ISO 8601
ValidStamps == {<<D>>, <<D, "T", T>>, <<D, " ", T>>, <<D, "T", T, F>>,
                <<D, "T", T, "Z">>, <<D, "T", T, "+09:00">>}

\* C20: for create_date and date every valid ISO timestamp (also one
\* ending in Z) is stored as exactly YYYY-MM-DD HH:MM:SS with nothing
\* appended, every absent or unparsable one as null, and the timestamps do
\* not keep the rest of the record from being produced.
C20_TimestampsCanonical ==
    (prog = "json" /\ pc = "parsed") =>
      /\ ~record.none =>
           \A fld \in {"create_date", "date"} :
             record[fld] =
               IF payload[fld].t = "str" /\ payload[fld].v \in ValidStamps
               THEN Str(<<D, " ", T>>)
               ELSE Null
      /\ (/\ payload.kind = "dict" /\ payload.image
          /\ payload.user.t \in {"absent", "dict"}
          /\ payload.tags.t = "absent" \/ ListOfStrings(payload.tags))
           => ~record.none


\* the position of the last upsert of a record with primary key k
LastWith(k) ==
    LET at == {n \in 1..Len(ups) : Pk(table.schema, ups[n]) = k}
    IN  CHOOSE n \in at : \A m \in at : m <= n
\* C21: after any sequence of upserts the illusts table holds at most one
\* row per primary-key value, that row equals the last record upserted with
\* that key, and no row has a null primary key.
C21_OneRowPerKey ==
    prog = "ups" =>
        LET rows == table.rows
            key(n) == Pk(table.schema, rows[n])
        IN  /\ \A a, b \in 1..Len(rows) : a # b => key(a) # key(b)
            /\ \A a \in 1..Len(rows) :
                 /\ key(a) # Null
                 /\ \E n \in 1..Len(ups) : Pk(table.schema, ups[n]) = key(a)
                 /\ rows[a] = ups[LastWith(key(a))]

\* the content of size new, pasted at offset, on an axis of size target
Inside(offset, new, target) ==
    /\ offset >= 0
    /\ offset + new <= target
    /\ (target - new - offset) - offset \in {0, 1}
\* C22: for every input size (w, h) with w, h >= 1 and every target (W, H),
\* resize_with_aspect_ratio returns a canvas of exactly W x H in which the
\* scaled content lies fully inside: each offset is >= 0, offset + new <=
\* target on both axes, and the two paddings on an axis differ by at most 1.
C22_CanvasExactContentInside ==
    (prog = "geo" /\ pc # "start") =>
        /\ geo.state = "canvas"
        /\ geo.cw = geo.tw /\ geo.ch = geo.th
        /\ Inside(geo.ox, geo.nw, geo.tw)
        /\ Inside(geo.oy, geo.nh, geo.th)

\* the exit code of the interpreter: 1 after an uncaught exception
ExitCode == IF pc \in {"raised", "crashed", "interrupted"} THEN 1 ELSE 0
\* the root is no directory, or a store could not be opened
CannotStart == ~root_isdir \/ \E u \in faults : u[1] = "open"
\* every source file the run found is still on disk
NoneDeleted == Removed = {} /\ (prog = "main" /\ root_isdir => disk = Files)
\* C23: the run ends with exit code 0 when it completes, and with a
\* non-zero exit code when the root path is not a valid directory or when
\* the blob store or the relational store cannot be opened; in the non-zero
\* cases no source file has been deleted.
C23_ExitCodes ==
    (prog \in {"main", "pas", "mig"} /\ pc \in Stopped) =>
        /\ pc = "done" /\ ~CannotStart => ExitCode = 0
        /\ CannotStart => ExitCode # 0 /\ NoneDeleted

\* C24: in process_images_to_lmdb the files removed after a batch commit are
\* exactly the files whose bytes were put in that committed batch: whatever
\* files fail to encode, no file that was never put in the blob store is
\* removed, and no file that was put and committed is skipped by the
\* removal loop.
C24_RemovedExactlyPut ==
    (prog = "mig" /\ OnlyFaults({"item"})) =>
      \A k \in NB :
        /\ batches[k].removed \subseteq batches[k].stored
        /\ (batches[k].status = "Committed" /\ (k < LastB \/ pc = "done"))
             => batches[k].stored \subseteq batches[k].removed

\* C26: distinct source image files map to distinct blob-store keys, so no
\* blob written for one source is overwritten by another source within a
\* run: any two sources the run deleted (possibly files of different
\* directories with the same file name) have their own key, and after a
\* run without failures each of these keys is in the blob store.
C26_DistinctKeys ==
    prog \in Pipelines =>
      /\ \A f, g \in Removed : f # g => Key(f) # Key(g)
      /\ (pc = "done" /\ faults = {}) => \A f \in Removed : Key(f) \in lmdb

\* C27: in process_and_store a file whose name does not match the
\* identifier pattern is left untouched: it is not written to the blob
\* store, no metadata record is upserted for it, and neither it nor its
\* sidecar is deleted (the run deletes no sidecar at all).
C27_UnmatchedUntouched ==
    prog = "pas" =>
      /\ \A f \in Range(image_paths) :
           kind[f] = "nomatch" =>
             /\ f \in disk
             /\ Key(f) \notin lmdb \cup txn.writes
             /\ f \notin sql \cup sqlPending
      /\ Sidecars(Files) \subseteq jsons
\* a finished run has skipped a file with a foreign name and has stored
\* and removed a file listed after it
C27_Witness ==
    /\ prog = "pas" /\ pc = "done"
    /\ \E f, g \in Range(image_paths) :
         /\ kind[f] = "nomatch" /\ f < g
         /\ g \notin disk /\ Key(g) \in lmdb

\* the output the task would write is in the id-prefix directory
OutputExists == <<cur[1], "png">> \in tdir
\* C29: in process_single_file (and save_resized_image) the duplicate check
\* agrees with the output it guards: a source is treated as a duplicate
\* exactly when the resized output <name>.png already exists in the
\* id-prefix directory, for every source extension, so an existing output
\* is never overwritten.
C29_DuplicateCheckMatchesOutput ==
    prog \in {"psf", "sri"} =>
      /\ pc \in {"psf_dup_image", "sri_dup_image"} => OutputExists
      /\ pc \in {"psf_save", "sri_save"} => ~OutputExists

\* C25: when run_multiprocessing processes a listing that contains an image
\* and its sidecar as two separate tasks, then under every interleaving of
\* the worker processes the sidecar is not lost: after the run it exists
\* either in the id-prefix directory or still at its original path, and the
\* image task does not fail because the sidecar vanished under it.
C25_SidecarNotLost ==
    prog = "pool" =>
      /\ "img" \notin pool.failed
      /\ pc \in Stopped =>
           (cur[1] \in jsons \/ <<cur[1], "json">> \in tdir)

\* C28: in process_image, at every step and for every source extension
\* (including a .png source whose final path equals the source path), a
\* crash or an exception leaves on disk either the original source file or
\* a completely written resized file (temporary or final): the source is
\* removed only after the resized copy was fully saved.
C28_SourceOrResizedCopy ==
    prog = "image" =>
        \/ img.fs[img.path] = "original"
        \/ img.fs[SavePath] = "resized"
        \/ img.fs[FinalPath] = "resized"
\* the process died after a .png source was removed and before the
\* temporary file took its place
C28_Witness ==
    /\ prog = "image" /\ pc = "crashed"
    /\ img.path = FinalPath
    /\ img.fs[img.path] = "none"
    /\ img.fs[SavePath] = "resized"

\* the rows after the records of a list were upserted one after the other
RECURSIVE Applied(_, _)
Applied(rows, recs) ==
    IF recs = <<>> THEN rows
    ELSE Applied(InsertOrReplace("id", rows, Head(recs)), Tail(recs))
\* the list holds a record whose insertion raises
InsertRaises == \E n \in 1..Len(conn.records) : conn.records[n].title.t = "list"
\* insert_batch has returned from a call with a non-empty list
Returned == prog = "batch" /\ pc = "done" /\ conn.records # <<>>

\* C30 as stated: insert_batch is all-or-nothing: if the insertion of any
\* record of the list raises, the transaction is rolled back and the table
\* is exactly as it was before the call; otherwise every record of the
\* list is committed; in both cases the connection is closed.
C30_AllOrNothing ==
    Returned =>
      /\ conn.state = "closed"
      /\ InsertRaises => table.rows = conn.before
      /\ ~InsertRaises => table.rows = Applied(conn.before, conn.records)

\* C30 amended: if the insertion of any record of the list or the commit
\* raises, the transaction is rolled back and the table is exactly as it
\* was before the call; otherwise every record of the list is committed;
\* in both cases the connection is closed.
C30_AllOrNothingWithCommit ==
    Returned =>
      /\ conn.state = "closed"
      /\ InsertRaises => conn.raised
      /\ conn.raised => table.rows = conn.before
      /\ ~conn.raised => table.rows = Applied(conn.before, conn.records)
\* the second record of a list could not be inserted after the first one
\* had changed the rows of the transaction, and the table is as before
C30_Witness ==
    /\ Returned /\ conn.raised
    /\ conn.k = 2 /\ conn.pending # conn.before
    /\ table.rows = conn.before

=============================================================================
